---- MODULE Spec2Model ----
(***************************************************************************)
(* Verification model of scaffoldly/k8s-web: the OpenAPI spec merger, the  *)
(* runtime client shims (React configuration holder and transport, Angular *)
(* interceptors), the publish script and the Makefile's version targets.   *)
(* Each subsystem is a state machine of its own over its own variables;    *)
(* the variable prog says which one a behaviour runs.                      *)
(***************************************************************************)
EXTENDS Integers, Sequences, FiniteSets, TLC

VARIABLES
  prog,        \* which program of the repository this behaviour runs
  specFiles,   \* merger: contents of the spec files, in iteration order
  mergedSpec,  \* merger: the document mergeOpenAPISpecs returned
  mergeLog,    \* merger: errors raised / warnings logged by the merge
  envBaseURL,  \* React config: process.env.K8S_API_URL when the module loaded
  envToken,    \* React config: process.env.K8S_API_TOKEN when the module loaded
  activeConfig,\* React config: the module-level activeConfig
  reactCall,   \* React transport: the latest customInstance call and its fate
  configOp,    \* React config: the last of load, configureK8sClient, resetK8sClientConfig
  configArg,   \* React config: the argument of the last configureK8sClient call, if it was the last
  chain,       \* Angular: the interceptors, in registration order
  ngConfig,    \* Angular: the value injected for K8S_CLIENT_CONFIG
  retryConfig, \* Angular: the retry interceptor's configuration
  httpPc,      \* Angular: "idle", "waiting" (in the backend), "backoff", "done"
  httpReq,     \* Angular: the request the caller issued
  script,      \* Angular: the statuses the backend answers with, call by call
  backendReqs, \* Angular: the requests the backend (transport) was invoked with
  soFar,       \* Angular: the retry operator's count of retries so far
  timers,      \* Angular: the delays of the backoff timers started
  backendError,\* Angular: the HttpErrorResponse of the backend's last failure
  outcome,     \* Angular: what the caller's observable delivered
  framework,   \* publish.js: process.env.FRAMEWORK
  dryRun,      \* publish.js: whether --dry-run was given
  distExists,  \* publish.js: which dist/package.json files exist
  pkgName,     \* publish.js: the name in each dist/package.json
  pkgWritten,  \* publish.js: the dist/package.json files written so far
  npmCalls,    \* publish.js: the npm publish calls made, with their results
  registry,    \* publish.js: the dist-tags published to npm by earlier and this run
  pubPc,       \* publish.js: where the script is
  pubExit,     \* publish.js: the exit status, once the script has ended
  mkEntry,     \* build: the entry point that was run
  mkArg,       \* build: the version argument it was given (its characters)
  mkPublish,   \* build: whether PUBLISH=true
  mkPc,        \* build: "start", the recipe step about to run, or "ended"
  mkLog,       \* build: the recipe steps run so far, with their results
  containerStarted, \* build: whether docker compose up has started containers
  containersUp,\* build: whether the kube-apiserver/etcd containers are running
  pkgModified, \* build: whether update-versions.js has written package.json
  mkExit,      \* build: the exit status, once the entry point has ended
  genClient,   \* generator: options.client
  specsDir,    \* generator: the file names in specsDir, None when it does not exist
  genPc,       \* generator: the pipeline step about to run, or "ended"
  genLog,      \* generator: the pipeline steps run so far, with their results
  genExit,     \* generator: the exit status, once the process has ended
  discovery,   \* fetch-specs: the keys of the discovery document's paths
  fetchPending,\* fetch-specs: the keys the loop has not processed yet
  specsWritten,\* fetch-specs: the files written, each with the key whose spec it holds
  fetchPc,     \* fetch-specs: "start", "loop" or "ended"
  fetchExit,   \* fetch-specs: the exit status, once the script has ended
  docOperation,\* JSDoc injection: the operation whose function the file declares
  docFile,     \* JSDoc injection: the lines of a generated file
  docPrev,     \* JSDoc injection: the lines of the file before the latest pass
  docPasses,   \* JSDoc injection: the number of passes of injectJSDocs so far
  retryOverride, \* retry policy: the RetryConfig the application passed
  retryDelays, \* retry policy: the delays the delay callback returned, in order
  policyPc,    \* retry policy: "retrying" or "exhausted"
  regenDir,    \* repeated generation: the files of specsDir, each with its content
  regenRuns    \* repeated generation: for each run, the document it wrote to _merged.json

mergeVars == <<specFiles, mergedSpec, mergeLog>>
reactVars == <<envBaseURL, envToken, activeConfig, reactCall, configOp, configArg>>
httpVars == <<chain, ngConfig, retryConfig, httpPc, httpReq, script, backendReqs,
              soFar, timers, backendError, outcome>>

pubVars == <<framework, dryRun, distExists, pkgName, pkgWritten, npmCalls, registry,
            pubPc, pubExit>>

mkVars == <<mkEntry, mkArg, mkPublish, mkPc, mkLog, containerStarted, containersUp,
           pkgModified, mkExit>>

genVars == <<genClient, specsDir, genPc, genLog, genExit>>

fetchVars == <<discovery, fetchPending, specsWritten, fetchPc, fetchExit>>

docVars == <<docOperation, docFile, docPrev, docPasses>>

policyVars == <<retryOverride, retryDelays, policyPc>>

\* The variables of the build-time tools (generator, spec fetcher, JSDoc
\* injection) and of the retry policy taken alone.
regenVars == <<regenDir, regenRuns>>

toolVars == <<genVars, fetchVars, docVars, policyVars, regenVars>>

vars == <<prog, mergeVars, reactVars, httpVars, pubVars, mkVars, toolVars>>

\* ------------------------------------------------------------------ values
\* An optional JavaScript value: absent (undefined) or present.
None == {}
Some(x) == {x}
Val(o) == CHOOSE x \in o : TRUE

\* A JavaScript object with no own keys.
EmptyObj == <<>>

\* ----------------------------------------------------------------- strings
\* A string whose characters matter (a URL, a version) is the sequence of its
\* characters.
StartsWith(s, p) == Len(s) >= Len(p) /\ SubSeq(s, 1, Len(p)) = p

Includes(s, sub) ==
  \E i \in 1..(Len(s) - Len(sub) + 1) : SubSeq(s, i, i + Len(sub) - 1) = sub

EmptyStr == <<>>
HttpsScheme == <<"h", "t", "t", "p", "s", ":", "/", "/">>
HttpPrefix == <<"h", "t", "t", "p">>
ApiSegment == <<"/", "a", "p", "i", "/">>

\* https://k : the API server's base URL.
ClusterURL == HttpsScheme \o <<"k">>
\* /api/v1/p : a core-group path; /apis/g/d : a named-group path.
CorePath == <<"/", "a", "p", "i", "/", "v", "1", "/", "p">>
GroupPath == <<"/", "a", "p", "i", "s", "/", "g", "/", "d">>

\* The WHATWG URL parser on a base: it needs a scheme and a host.
ParsesAsBase(base) ==
  base # None /\ StartsWith(Val(base), HttpsScheme) /\ Len(Val(base)) > Len(HttpsScheme)

\* The origin of a base URL: what precedes the first "/" after the host.
RECURSIVE OriginEnd(_, _)
OriginEnd(u, i) ==
  IF i > Len(u) \/ u[i] = "/" THEN i - 1 ELSE OriginEnd(u, i + 1)

Origin(u) == SubSeq(u, 1, OriginEnd(u, Len(HttpsScheme) + 1))

\* new URL(path, base).toString() for a path that starts with "/": a path that
\* starts with "//" is scheme-relative, it names its own host and takes only
\* the scheme of the base.
ResolveURL(path, base) ==
  IF StartsWith(path, <<"/", "/">>)
  THEN SubSeq(base, 1, Len(HttpsScheme) - 2) \o path
  ELSE Origin(base) \o path

\* ================================================================= MERGER
\* Bounds of the merger's inputs.
MaxDocs == 2
PathKeys == {"/api/v1/pods", "/apis/apps/v1/deployments"}
SchemaKeys == {"Pod"}
ParamKeys == {"limit"}

\* The shape of one spec file: which sections it has and which keys they hold.
Shapes ==
  [paths : {None} \cup {Some(S) : S \in SUBSET PathKeys},
   schemas : {None} \cup {Some(S) : S \in SUBSET SchemaKeys},
   parameters : {None} \cup {Some(S) : S \in {ParamKeys}},
   hasComponents : BOOLEAN,
   servers : BOOLEAN]

\* The content of spec file number i with shape sh. Every definition of the
\* file (and its servers block) is tagged with i, so that the merged document
\* shows which file a definition came from.
Section(i, keys) == [k \in keys |-> i]

Components(i, sh) ==
  LET s == IF sh.schemas = None THEN EmptyObj
           ELSE ("schemas" :> Section(i, Val(sh.schemas)))
      p == IF sh.parameters = None THEN EmptyObj
           ELSE ("parameters" :> Section(i, Val(sh.parameters)))
  IN  s @@ p

SpecFile(i, sh) ==
  [paths |-> IF sh.paths = None THEN None ELSE Some(Section(i, Val(sh.paths))),
   components |-> IF sh.hasComponents THEN Some(Components(i, sh)) ELSE None,
   servers |-> IF sh.servers THEN Some(i) ELSE None]

WellFormedShape(sh) ==
  ~sh.hasComponents => (sh.schemas = None /\ sh.parameters = None)

\* Mutants of Object.assign: one that keeps the target's value on a collision,
\* one that replaces the target by the source.
ObjectAssignFirstWins(target, source) ==
  [k \in DOMAIN target \cup DOMAIN source |->
     IF k \in DOMAIN target THEN target[k] ELSE source[k]]

ObjectAssignReplace(target, source) == source

\* Object.assign(target, source): source's keys overwrite target's.
ObjectAssign(target, source) ==
  [k \in DOMAIN target \cup DOMAIN source |->
     IF k \in DOMAIN source THEN source[k] ELSE target[k]]

\* The document mergeOpenAPISpecs starts from.
InitialMerged ==
  [paths |-> EmptyObj,
   components |-> ("schemas" :> EmptyObj),
   servers |-> None]

MergePaths(m, spec) ==
  IF spec.paths # None THEN ObjectAssign(m.paths, Val(spec.paths)) ELSE m.paths

MergeSchemas(m, spec) ==
  IF spec.components # None /\ "schemas" \in DOMAIN Val(spec.components)
  THEN [m.components EXCEPT
          !["schemas"] = ObjectAssign(@, Val(spec.components)["schemas"])]
  ELSE m.components

\* Mutant: component sections other than schemas are not merged.
MergeOtherComponentsDropped(comps, spec) == comps

MergeOtherComponents(comps, spec) ==
  IF spec.components = None THEN comps
  ELSE LET c == Val(spec.components)
           others == DOMAIN c \ {"schemas"}
       IN  [t \in DOMAIN comps \cup others |->
              IF t \in others
              THEN ObjectAssign(IF t \in DOMAIN comps THEN comps[t] ELSE EmptyObj, c[t])
              ELSE comps[t]]

MergeServers(m, spec) ==
  IF m.servers = None /\ spec.servers # None THEN spec.servers ELSE m.servers

\* One iteration of the loop over specFiles.
MergeOne(m, spec) ==
  [paths |-> MergePaths(m, spec),
   components |-> MergeOtherComponents(MergeSchemas(m, spec), spec),
   servers |-> MergeServers(m, spec)]

RECURSIVE MergeFrom(_, _, _)
MergeFrom(m, files, i) ==
  IF i > Len(files) THEN m ELSE MergeFrom(MergeOne(m, files[i]), files, i + 1)

mergeOpenAPISpecs(files) == MergeFrom(InitialMerged, files, 1)

MergeIdle ==
  /\ specFiles = <<>>
  /\ mergedSpec = None
  /\ mergeLog = <<>>

MergeStart ==
  /\ \E n \in 0..MaxDocs :
       \E shapes \in [1..n -> {sh \in Shapes : WellFormedShape(sh)}] :
         specFiles = [i \in 1..n |-> SpecFile(i, shapes[i])]
  /\ mergedSpec = None
  /\ mergeLog = <<>>

\* generateClients calls mergeOpenAPISpecs on the spec files. The function
\* has no throw statement and no console call: mergeLog is left as it is.
Merge ==
  /\ prog = "merge"
  /\ mergedSpec = None
  /\ mergedSpec' = Some(mergeOpenAPISpecs(specFiles))
  /\ UNCHANGED <<prog, toolVars, specFiles, mergeLog, reactVars, httpVars, pubVars, mkVars>>

MergeNext == Merge

\* ======================================================= REACT CLIENT SHIM
\* JavaScript truthiness of an optional string.
Truthy(o) == o # None /\ Val(o) # EmptyStr

\* x || '' on an optional string.
OrEmpty(o) == IF Truthy(o) THEN Val(o) ELSE EmptyStr

Token == <<"t">>
CustomHeaders == ("X-Custom" :> "v")
\* Custom headers that set Authorization themselves.
AuthHeaders == ("Authorization" :> <<"Basic", <<"u">>>>)

\* process.env at load.
EnvBaseURLs == {None, Some(EmptyStr), Some(ClusterURL)}
EnvTokens == {None, Some(Token)}

\* The arguments configureK8sClient is called with. baseURL is typed as a
\* string, but nothing checks it: it may be missing or empty.
ConfigArgs ==
  [baseURL : {None, Some(EmptyStr), Some(ClusterURL), Some(ClusterURL \o <<"/">>)},
   token : {None, Some(Token)},
   headers : {None},
   rejectUnauthorized : {None}]
  \cup
  [baseURL : {Some(ClusterURL)},
   token : {None},
   headers : {Some(CustomHeaders), Some(AuthHeaders)},
   rejectUnauthorized : {None, Some(TRUE)}]

\* Mutant: a token in the environment makes the client count as configured.
LoadConfigTokenConfigures ==
  [baseURL |-> Some(OrEmpty(envBaseURL)),
   token |-> OrEmpty(envToken),
   headers |-> EmptyObj,
   rejectUnauthorized |-> FALSE,
   configured |-> (Truthy(envBaseURL) \/ Truthy(envToken))]

\* activeConfig as the module sets it at load and resetK8sClientConfig resets it.
LoadConfig ==
  [baseURL |-> Some(OrEmpty(envBaseURL)),
   token |-> OrEmpty(envToken),
   headers |-> EmptyObj,
   rejectUnauthorized |-> FALSE,
   configured |-> Truthy(envBaseURL)]

ReactIdle ==
  /\ envBaseURL = None
  /\ envToken = None
  /\ activeConfig = None
  /\ reactCall = None
  /\ configOp = "none"
  /\ configArg = None

ReactStart ==
  /\ envBaseURL \in EnvBaseURLs
  /\ envToken \in EnvTokens
  /\ activeConfig = LoadConfig
  /\ reactCall = None
  /\ configOp = "load"
  /\ configArg = None

Configured(cfg, config) ==
  [baseURL |-> config.baseURL,
   token |-> IF config.token # None THEN Val(config.token) ELSE cfg.token,
   headers |-> IF config.headers # None THEN Val(config.headers) ELSE cfg.headers,
   rejectUnauthorized |->
     IF config.rejectUnauthorized # None THEN Val(config.rejectUnauthorized)
     ELSE cfg.rejectUnauthorized,
   configured |-> TRUE]

configureK8sClient ==
  /\ prog = "react"
  /\ \E config \in ConfigArgs :
       /\ activeConfig' = Configured(activeConfig, config)
       /\ configArg' = Some(config)
  /\ configOp' = "configure"
  /\ UNCHANGED <<prog, toolVars, mergeVars, httpVars, pubVars, mkVars, envBaseURL, envToken, reactCall>>

resetK8sClientConfig ==
  /\ prog = "react"
  /\ activeConfig' = LoadConfig
  /\ configOp' = "reset"
  /\ configArg' = None
  /\ UNCHANGED <<prog, toolVars, mergeVars, httpVars, pubVars, mkVars, envBaseURL, envToken, reactCall>>

\* getK8sClientConfig(): throws unless activeConfig.configured.
GetConfigThrows(cfg) == ~cfg.configured

\* The headers customInstance sends.
RequestHeaders(cfg, callHeaders) ==
  LET authHeaders == IF cfg.token # EmptyStr
                     THEN ("Authorization" :> <<"Bearer", cfg.token>>)
                     ELSE EmptyObj
  IN  ObjectAssign(ObjectAssign(ObjectAssign(
        ("Content-Type" :> "application/json"), authHeaders), cfg.headers), callHeaders)

\* ----- query parameters
\* The values a parameter can have: undefined, null, a string, a number.
Undefined == [kind |-> "undefined", v |-> <<>>]
Null == [kind |-> "null", v |-> <<>>]
Str(s) == [kind |-> "string", v |-> s]
Num(digits) == [kind |-> "number", v |-> digits]

\* The keys of the parameter object the convenience hooks build, in the
\* order they are written.
ParamNames == <<"labelSelector", "fieldSelector", "limit", "continue">>

\* The options the convenience hooks are called with (undefined included).
HookOptions ==
  { None,
    Some([labelSelector |-> Str(<<"a", "=", "b">>), fieldSelector |-> Str(<<"x", "&", "y">>),
          limit |-> Num(<<"5">>), continue |-> Str(<<"c", " ", "d">>)]),
    Some([labelSelector |-> Str(EmptyStr), fieldSelector |-> Undefined,
          limit |-> Undefined, continue |-> Null]),
    Some([labelSelector |-> Undefined, fieldSelector |-> Str(<<"p", "%", "+">>),
          limit |-> Num(<<"0">>), continue |-> Undefined]) }

\* usePods, useNamespaces, ...: the parameter object handed to the generated
\* hook, { labelSelector: options?.labelSelector, ... }.
HookParams(options) ==
  [name \in {ParamNames[i] : i \in 1..Len(ParamNames)} |->
     IF options = None THEN Undefined ELSE Val(options)[name]]

\* The characters application/x-www-form-urlencoded leaves as they are.
Unreserved ==
  {"a", "b", "c", "d", "p", "x", "y", "0", "5", "*", "-", ".", "_"}

\* Mutant: no encoding at all.
SerializeCharRaw(c) == <<c>>

\* URLSearchParams.toString() on one character of a name or value.
SerializeChar(c) ==
  IF c \in Unreserved THEN <<c>>
  ELSE IF c = " " THEN <<"+">>
  ELSE IF c = "=" THEN <<"%", "3", "D">>
  ELSE IF c = "&" THEN <<"%", "2", "6">>
  ELSE IF c = "%" THEN <<"%", "2", "5">>
  ELSE IF c = "+" THEN <<"%", "2", "B">>
  ELSE <<"%", "?", "?">>

RECURSIVE Serialize(_)
Serialize(str) ==
  IF str = <<>> THEN <<>> ELSE SerializeChar(Head(str)) \o Serialize(Tail(str))

\* searchParams after the forEach: the entries whose value is neither
\* undefined nor null, with String(value).
RECURSIVE SearchParams(_, _)
SearchParams(params, i) ==
  IF i > Len(ParamNames) THEN <<>>
  ELSE LET value == params[ParamNames[i]]
       IN  (IF value.kind \in {"undefined", "null"} THEN <<>>
            ELSE << <<ParamNames[i], value.v>> >>)
           \o SearchParams(params, i + 1)

\* searchParams.toString(): name=value pairs joined by "&". A parameter name
\* is kept as one token of the string; it has no character to encode.
RECURSIVE QueryString(_)
QueryString(entries) ==
  IF entries = <<>> THEN <<>>
  ELSE <<entries[1][1], "=">> \o Serialize(entries[1][2])
       \o (IF Len(entries) > 1 THEN <<"&">> ELSE <<>>)
       \o QueryString(Tail(entries))

\* fullUrl
FullUrl(url, params) ==
  IF params = None THEN url
  ELSE LET queryString == QueryString(SearchParams(Val(params), 1))
       IN  IF queryString # <<>> THEN url \o <<"?">> \o queryString ELSE url

\* customInstance(config) up to and including its call of fetch. The record
\* keeps what the call read of the configuration (cfg) beside what it did.
CustomInstanceCall(clientConfig, url, method, params) ==
  LET cfg == [baseURL |-> clientConfig.baseURL, token |-> clientConfig.token,
              headers |-> clientConfig.headers, configured |-> clientConfig.configured]
  IN
  IF GetConfigThrows(cfg)
  THEN [cfg |-> cfg, url |-> url, method |-> method, params |-> params,
        result |-> "ConfigError", status |-> 0, body |-> "none", parsed |-> FALSE, fetched |-> None,
        served |-> None]
  ELSE IF ~ParsesAsBase(cfg.baseURL)
  THEN [cfg |-> cfg, url |-> url, method |-> method, params |-> params,
        result |-> "TypeError", status |-> 0, body |-> "none", parsed |-> FALSE, fetched |-> None,
        served |-> None]
  ELSE [cfg |-> cfg, url |-> url, method |-> method, params |-> params,
        result |-> "pending", status |-> 0, body |-> "none", parsed |-> FALSE,
        fetched |-> Some([url |-> FullUrl(ResolveURL(url, Val(cfg.baseURL)), params),
                          method |-> method,
                          headers |-> RequestHeaders(cfg, EmptyObj)]),
        served |-> None]

\* A generated function calls customInstance with a path of the merged spec
\* and without parameters.
customInstance ==
  /\ prog = "react"
  /\ \A c \in reactCall : c.result # "pending"
  /\ \E call \in {<<CorePath, "GET">>, <<GroupPath, "DELETE">>} :
       reactCall' = Some([options |-> None]
                         @@ CustomInstanceCall(activeConfig, call[1], call[2], None))
  /\ UNCHANGED <<prog, toolVars, mergeVars, httpVars, pubVars, mkVars, envBaseURL, envToken, activeConfig, configOp,
                 configArg>>

\* A convenience hook (useNamespaces, usePods, ...) is called: it hands its
\* parameter object to the generated list hook, whose query function calls
\* customInstance with { url, method: 'GET', params }.
useList ==
  /\ prog = "react"
  /\ \A c \in reactCall : c.result # "pending"
  /\ \E options \in HookOptions :
       reactCall' = Some([options |-> options]
                         @@ CustomInstanceCall(activeConfig, CorePath, "GET",
                                               Some(HookParams(options))))
  /\ UNCHANGED <<prog, toolVars, mergeVars, httpVars, pubVars, mkVars, envBaseURL, envToken, activeConfig, configOp,
                 configArg>>

HttpStatuses == {200, 404, 503}
ResponseOk(status) == status >= 200 /\ status <= 299

\* What the body of a response is: a JSON document, or something
\* response.json() cannot parse (an empty body, plain text).
BodyKinds == {"json", "text"}

\* Mutant: the body is parsed before the status is looked at.
ParsesBodyAlways(status) == TRUE

\* response.json() is reached for ok responses only.
ParsesBody(status) == ResponseOk(status)

\* Mutant: the URL and the headers are built from the configuration as it is
\* when the transport gets to the request.
RequestSentLate(c, current) ==
  IF current.configured /\ ParsesAsBase(current.baseURL)
  THEN Some([url |-> FullUrl(ResolveURL(c.url, Val(current.baseURL)), c.params),
             method |-> c.method,
             headers |-> RequestHeaders(current, EmptyObj)])
  ELSE c.fetched

\* fetch(fullUrl, options): the request the transport serves is the one
\* customInstance built before it returned; the configuration as it is by
\* then (current) plays no part.
RequestSent(c, current) == c.fetched

\* fetch(...).then(response => ...): the promise settles. A response that is
\* not ok is turned into Error(`HTTP error! status: ${response.status}`); an
\* ok one into what response.json() gives, the parsed body or its SyntaxError.
FetchSettles ==
  /\ prog = "react"
  /\ \E c \in reactCall, status \in HttpStatuses, body \in BodyKinds :
       /\ c.result = "pending"
       /\ reactCall' = Some([c EXCEPT
                               !.result = IF ~ResponseOk(status) THEN "HTTP error! status:"
                                          ELSE IF body = "json" THEN "json"
                                          ELSE "SyntaxError",
                               !.status = status,
                               !.body = body,
                               !.parsed = ParsesBody(status),
                               !.served = RequestSent(c, activeConfig)])
  /\ UNCHANGED <<prog, toolVars, mergeVars, httpVars, pubVars, mkVars, envBaseURL, envToken, activeConfig, configOp,
                 configArg>>

ReactNext ==
  \/ configureK8sClient
  \/ resetK8sClientConfig
  \/ customInstance
  \/ useList
  \/ FetchSettles

\* ================================================== ANGULAR INTERCEPTORS
\* https://x/y : a URL outside the cluster; a/b : a relative asset URL;
\* https://x/api/z : a URL outside the cluster with an /api/ segment.
ExternalURL == HttpsScheme \o <<"x", "/", "y">>
AssetURL == <<"a", "/", "b">>
ExternalApiURL == HttpsScheme \o <<"x">> \o ApiSegment \o <<"z">>

\* //x/y : a scheme-relative URL of another host; /a : a path of the
\* application's own origin.
SchemeRelativeURL == <<"/", "/", "x", "/", "y">>
AppPath == <<"/", "a">>

ReqUrls == {CorePath, GroupPath, ExternalURL, AssetURL, ExternalApiURL,
            SchemeRelativeURL, AppPath}

\* The interceptor chains an application may register: any of the three
\* interceptors, each at most once, in any order.
Interceptors == {"client", "retry", "error"}

Chains ==
  {c \in UNION {[1..n -> Interceptors] : n \in 0..3} :
     \A i, j \in DOMAIN c : i # j => c[i] # c[j]}

IndexOf(c, name) == CHOOSE i \in DOMAIN c : c[i] = name

\* DEFAULT_K8S_CONFIG (no baseURL) and the configurations an application provides.
DEFAULT_K8S_CONFIG == [baseURL |-> None, token |-> None, headers |-> Some(EmptyObj)]

NgConfigs ==
  {DEFAULT_K8S_CONFIG}
  \cup [baseURL : {None, Some(EmptyStr), Some(ClusterURL)},
        token : {None, Some(Token)},
        headers : {Some(CustomHeaders)}]

maxRetries == 3
initialDelay == 1000
maxDelay == 30000
backoffMultiplier == 2

DEFAULT_RETRY_CONFIG ==
  [maxRetries |-> maxRetries,
   initialDelay |-> initialDelay,
   maxDelay |-> maxDelay,
   backoffMultiplier |-> backoffMultiplier,
   retryableStatusCodes |-> {408, 429, 500, 502, 503, 504}]

\* The backend's answers: one status for each of its possible invocations.
Scripts == [1..(maxRetries + 1) -> HttpStatuses]

\* A response body: not an object (absent), a Kubernetes Status object, or
\* another object. Strings are sequences; a missing property is None.
StatusBody == [kind |-> <<"Status">>, message |-> <<"m">>,
               reason |-> Some("NotFound"), details |-> Some("d")]
BareStatusBody == [kind |-> <<"Status">>, message |-> EmptyStr,
                   reason |-> None, details |-> None]
OtherBody == [kind |-> <<"Other">>, message |-> <<"o">>,
              reason |-> None, details |-> None]
Bodies == {None, Some(StatusBody), Some(BareStatusBody), Some(OtherBody)}

\* new HttpErrorResponse({status, error: body}): it has a status property.
HttpErrorResponse(status, body) ==
  [name |-> "HttpErrorResponse", status |-> Some(status), statusCode |-> None,
   message |-> <<"Http failure response", status>>, statusText |-> <<"text", status>>,
   reason |-> None, details |-> None, error |-> body]

\* new K8sApiError(message, statusCode, reason, details): it has no status
\* property.
K8sApiError(message, statusCode, reason, details) ==
  [name |-> "K8sApiError", status |-> None, statusCode |-> statusCode,
   message |-> message, statusText |-> EmptyStr,
   reason |-> reason, details |-> details, error |-> None]

ConfigError ==
  [name |-> "Error: K8s client not configured", status |-> None, statusCode |-> None,
   message |-> <<"K8s client not configured">>, statusText |-> EmptyStr,
   reason |-> None, details |-> None, error |-> None]

HttpResponse(status) ==
  [name |-> "HttpResponse", status |-> Some(status), statusCode |-> None,
   message |-> EmptyStr, statusText |-> <<"text", status>>,
   reason |-> None, details |-> None, error |-> None]

\* Mutant: the retry operator retries an error of any status.
RetryableAnyStatus(rc, error) == TRUE

\* a || b on strings.
OrStr(a, b) == IF a # EmptyStr THEN a ELSE b

parseK8sError(error) ==
  IF error.error # None /\ Val(error.error).kind = <<"Status">>
  THEN K8sApiError(
         OrStr(Val(error.error).message, <<"Kubernetes API error:">> \o error.statusText),
         error.status, Val(error.error).reason, Val(error.error).details)
  ELSE K8sApiError(
         OrStr(IF error.error # None THEN Val(error.error).message ELSE EmptyStr,
               OrStr(error.message, <<"HTTP">> \o error.statusText)),
         error.status, None, None)

\* K8sClientInterceptor.intercept: whether it throws, and the request it
\* hands to the next handler.
ClientThrows(cfg, req) == StartsWith(req.url, <<"/">>) /\ ~Truthy(cfg.baseURL)

ClientHeaders(cfg) ==
  LET auth == IF Truthy(cfg.token)
              THEN ("Authorization" :> <<"Bearer", Val(cfg.token)>>) ELSE EmptyObj
  IN  IF cfg.headers # None THEN ObjectAssign(auth, Val(cfg.headers)) ELSE auth

ClientRewrites(cfg, req) ==
  IF StartsWith(req.url, <<"/">>)
  THEN [url |-> ResolveURL(req.url, Val(cfg.baseURL)),
        headers |-> ObjectAssign(req.headers, ClientHeaders(cfg))]
  ELSE req

\* The request as the interceptor at position i of the chain sees it (position
\* Len(c) + 1 is the backend).
RECURSIVE ReqAt(_, _, _, _)
ReqAt(c, cfg, req, i) ==
  IF i <= 1 THEN req
  ELSE LET before == ReqAt(c, cfg, req, i - 1)
       IN  IF c[i - 1] = "client" THEN ClientRewrites(cfg, before) ELSE before

\* Calling the chain throws, synchronously, when the client interceptor does.
ChainThrows(c, cfg, req) ==
  \E i \in DOMAIN c : c[i] = "client" /\ ClientThrows(cfg, ReqAt(c, cfg, req, i))

\* The retry interceptor's test of what it retries, and the error
\* interceptor's test of what it translates.
RetriesUrl(url) == StartsWith(url, HttpPrefix) /\ Includes(url, ApiSegment)
TranslatesUrl(url) == ~StartsWith(url, HttpPrefix) \/ Includes(url, ApiSegment)

Retryable(rc, error) == error.status # None /\ Val(error.status) \in rc.retryableStatusCodes

RECURSIVE Pow(_, _)
Pow(b, e) == IF e = 0 THEN 1 ELSE b * Pow(b, e - 1)

Min(a, b) == IF a <= b THEN a ELSE b

\* Mutant: the delay is not capped.
BackoffDelayUncapped(rc, retryCount) ==
  rc.initialDelay * Pow(rc.backoffMultiplier, retryCount - 1)

\* The delay callback's result for the retryCount-th retry.
BackoffDelay(rc, retryCount) ==
  Min(rc.initialDelay * Pow(rc.backoffMultiplier, retryCount - 1), rc.maxDelay)

\* Mutant: the retry operator does not count.
WithinCountAlways(rc, n) == TRUE

\* retry({count}): the operator resubscribes while the retries so far are
\* fewer than count.
WithinCount(rc, n) == rc.maxRetries > 0 /\ n < rc.maxRetries

\* An error travelling from position i of the chain towards the caller: the
\* error interceptor rethrows it (translated or not), the retry operator
\* either rethrows it or starts a backoff timer, which ends the travel.
RECURSIVE Ascend(_, _, _, _, _, _, _)
Ascend(c, cfg, rc, req, n, error, i) ==
  IF i = 0 THEN [retry |-> FALSE, error |-> error, delay |-> 0]
  ELSE IF c[i] = "error"
  THEN Ascend(c, cfg, rc, req, n,
              IF TranslatesUrl(ReqAt(c, cfg, req, i).url) THEN parseK8sError(error)
              ELSE error,
              i - 1)
  ELSE IF c[i] = "retry"
          /\ WithinCount(rc, n)
          /\ Retryable(rc, error)
          /\ RetriesUrl(ReqAt(c, cfg, req, i).url)
  THEN [retry |-> TRUE, error |-> error, delay |-> BackoffDelay(rc, n + 1)]
  ELSE Ascend(c, cfg, rc, req, n, error, i - 1)

HttpIdle ==
  /\ chain = <<>>
  /\ ngConfig = None
  /\ retryConfig = None
  /\ httpPc = "off"
  /\ httpReq = None
  /\ script = <<>>
  /\ backendReqs = <<>>
  /\ soFar = 0
  /\ timers = <<>>
  /\ backendError = None
  /\ outcome = None

HttpStart ==
  /\ chain \in Chains
  /\ ngConfig \in NgConfigs
  /\ retryConfig = DEFAULT_RETRY_CONFIG
  /\ httpPc = "idle"
  /\ httpReq = None
  /\ script = <<>>
  /\ backendReqs = <<>>
  /\ soFar = 0
  /\ timers = <<>>
  /\ backendError = None
  /\ outcome = None

\* The caller subscribes to a request: the interceptors run down to the
\* backend, unless the client interceptor throws on the way.
HttpRequestFails ==
  /\ prog = "angular" /\ httpPc = "idle"
  /\ \E url \in ReqUrls, sc \in Scripts :
       LET req == [url |-> url, headers |-> EmptyObj]
       IN  /\ ChainThrows(chain, ngConfig, req)
           /\ httpReq' = Some(req)
           /\ script' = sc
  /\ outcome' = Some(ConfigError)
  /\ httpPc' = "done"
  /\ UNCHANGED <<prog, toolVars, mergeVars, reactVars, pubVars, mkVars, chain, ngConfig, retryConfig,
                 backendReqs, soFar, timers, backendError>>

HttpRequestSent ==
  /\ prog = "angular" /\ httpPc = "idle"
  /\ \E url \in ReqUrls, sc \in Scripts :
       LET req == [url |-> url, headers |-> EmptyObj]
       IN  /\ ~ChainThrows(chain, ngConfig, req)
           /\ httpReq' = Some(req)
           /\ script' = sc
           /\ backendReqs' = <<ReqAt(chain, ngConfig, req, Len(chain) + 1)>>
  /\ httpPc' = "waiting"
  /\ UNCHANGED <<prog, toolVars, mergeVars, reactVars, pubVars, mkVars, chain, ngConfig, retryConfig,
                 soFar, timers, backendError, outcome>>

\* The backend answers with a success status: every interceptor passes the
\* response on.
BackendSucceeds ==
  /\ prog = "angular" /\ httpPc = "waiting"
  /\ ResponseOk(script[Len(backendReqs)])
  /\ outcome' = Some(HttpResponse(script[Len(backendReqs)]))
  /\ httpPc' = "done"
  /\ UNCHANGED <<prog, toolVars, mergeVars, reactVars, pubVars, mkVars, chain, ngConfig, retryConfig, httpReq,
                 script, backendReqs, soFar, timers, backendError>>

\* The backend answers with an error status and some body.
BackendFails ==
  /\ prog = "angular" /\ httpPc = "waiting"
  /\ ~ResponseOk(script[Len(backendReqs)])
  /\ \E body \in Bodies :
       LET error == HttpErrorResponse(script[Len(backendReqs)], body)
           up == Ascend(chain, ngConfig, retryConfig, Val(httpReq), soFar,
                        error, Len(chain))
       IN  /\ backendError' = Some(error)
           /\ IF up.retry
              THEN /\ soFar' = soFar + 1
                   /\ timers' = Append(timers, up.delay)
                   /\ httpPc' = "backoff"
                   /\ UNCHANGED outcome
              ELSE /\ outcome' = Some(up.error)
                   /\ httpPc' = "done"
                   /\ UNCHANGED <<soFar, timers>>
  /\ UNCHANGED <<prog, toolVars, mergeVars, reactVars, pubVars, mkVars, chain, ngConfig, retryConfig, httpReq,
                 script, backendReqs>>

\* The backoff timer fires: the retry operator subscribes again to what is
\* below it, and the backend is invoked once more.
TimerFires ==
  /\ prog = "angular" /\ httpPc = "backoff"
  /\ backendReqs' = Append(backendReqs,
                           ReqAt(chain, ngConfig, Val(httpReq), Len(chain) + 1))
  /\ httpPc' = "waiting"
  /\ UNCHANGED <<prog, toolVars, mergeVars, reactVars, pubVars, mkVars, chain, ngConfig, retryConfig, httpReq,
                 script, soFar, timers, backendError, outcome>>

HttpNext ==
  \/ HttpRequestFails
  \/ HttpRequestSent
  \/ BackendSucceeds
  \/ BackendFails
  \/ TimerFires

\* ========================================================= PUBLISH SCRIPT
Packages == {"angular", "react"}

OriginalName(p) == IF p = "angular" THEN "k8s-web-angular" ELSE "k8s-web-react"

\* FRAMEWORK is unset, names a package, or is some other word.
Frameworks == {None, Some("angular"), Some("react"), Some("vue")}

publishAngular == framework = None \/ framework = Some("angular")
publishReact == framework = None \/ framework = Some("react")

Selected == {p \in Packages : IF p = "angular" THEN publishAngular ELSE publishReact}

PubIdle ==
  /\ framework = None
  /\ dryRun = FALSE
  /\ distExists = {}
  /\ pkgName = <<>>
  /\ pkgWritten = {}
  /\ npmCalls = <<>>
  /\ registry = {}
  /\ pubPc = "off"
  /\ pubExit = None

PubStart ==
  /\ framework \in Frameworks
  /\ dryRun \in BOOLEAN
  /\ distExists \in SUBSET Packages
  /\ pkgName = [p \in distExists |-> OriginalName(p)]
  /\ pkgWritten = {}
  /\ npmCalls = <<>>
  /\ registry = {}
  /\ pubPc = "rename"
  /\ pubExit = None

\* What the try block does next after its first n npm publish steps.
AfterRename ==
  IF publishAngular THEN "npm-angular"
  ELSE IF publishReact THEN "npm-react" ELSE "revert"

AfterAngular == IF publishReact THEN "npm-react" ELSE "revert"

\* Mutant: revertNames restores the Angular package only.
RevertedAngularOnly(names) ==
  [p \in DOMAIN names |->
     IF p = "angular" /\ p \in Selected THEN OriginalName(p) ELSE names[p]]

\* renameTok8sWeb / revertNames: the names after the writes of the selected
\* packages' package.json.
Renamed(names) ==
  [p \in DOMAIN names |-> IF p \in Selected THEN "k8s-web" ELSE names[p]]

Reverted(names) ==
  [p \in DOMAIN names |-> IF p \in Selected THEN OriginalName(p) ELSE names[p]]

\* readPackage of a missing file throws before anything is written: the
\* script dies of the uncaught exception.
RenameThrows ==
  /\ prog = "publish" /\ pubPc = "rename"
  /\ distExists # Packages
  /\ pubPc' = "ended"
  /\ pubExit' = Some(1)
  /\ UNCHANGED <<prog, toolVars, mergeVars, reactVars, httpVars, mkVars, framework, dryRun, distExists,
                 pkgName, pkgWritten, npmCalls, registry>>

renameTok8sWeb ==
  /\ prog = "publish" /\ pubPc = "rename"
  /\ distExists = Packages
  /\ pkgName' = Renamed(pkgName)
  /\ pkgWritten' = pkgWritten \cup Selected
  /\ pubPc' = AfterRename
  /\ UNCHANGED <<prog, toolVars, mergeVars, reactVars, httpVars, mkVars, framework, dryRun, distExists,
                 npmCalls, registry, pubExit>>

\* Mutant: a failed npm publish does not leave the try block.
AfterNpmIgnoringFailure(ok, next) == next

\* execSync throws when npm publish fails: control goes to the catch block.
AfterNpm(ok, next) == IF ok THEN next ELSE "catch"

\* execSync('cd angular/dist && npm publish ...'): it returns or throws.
NpmPublishAngular ==
  /\ prog = "publish" /\ pubPc = "npm-angular"
  /\ \E ok \in BOOLEAN :
       /\ npmCalls' = Append(npmCalls, [package |-> "angular", ok |-> ok])
       /\ registry' = IF ok /\ ~dryRun THEN registry \cup {"angular"} ELSE registry
       /\ pubPc' = AfterNpm(ok, AfterAngular)
  /\ UNCHANGED <<prog, toolVars, mergeVars, reactVars, httpVars, mkVars, framework, dryRun, distExists,
                 pkgName, pkgWritten, pubExit>>

NpmPublishReact ==
  /\ prog = "publish" /\ pubPc = "npm-react"
  /\ \E ok \in BOOLEAN :
       /\ npmCalls' = Append(npmCalls, [package |-> "react", ok |-> ok])
       /\ registry' = IF ok /\ ~dryRun THEN registry \cup {"react"} ELSE registry
       /\ pubPc' = AfterNpm(ok, "revert")
  /\ UNCHANGED <<prog, toolVars, mergeVars, reactVars, httpVars, mkVars, framework, dryRun, distExists,
                 pkgName, pkgWritten, pubExit>>

\* The end of the try block: revertNames, the report, and the script ends.
RevertAfterSuccess ==
  /\ prog = "publish" /\ pubPc = "revert"
  /\ pkgName' = Reverted(pkgName)
  /\ pkgWritten' = pkgWritten \cup Selected
  /\ pubPc' = "ended"
  /\ pubExit' = Some(0)
  /\ UNCHANGED <<prog, toolVars, mergeVars, reactVars, httpVars, mkVars, framework, dryRun, distExists,
                 npmCalls, registry>>

\* The catch block: revertNames and process.exit(1).
RevertAfterFailure ==
  /\ prog = "publish" /\ pubPc = "catch"
  /\ pkgName' = Reverted(pkgName)
  /\ pkgWritten' = pkgWritten \cup Selected
  /\ pubPc' = "ended"
  /\ pubExit' = Some(1)
  /\ UNCHANGED <<prog, toolVars, mergeVars, reactVars, httpVars, mkVars, framework, dryRun, distExists,
                 npmCalls, registry>>

\* The script is run again (make publish-dry-run, then make publish).
publish ==
  /\ prog = "publish" /\ pubPc = "ended"
  /\ framework' \in Frameworks
  /\ dryRun' \in BOOLEAN
  /\ pkgWritten' = {}
  /\ npmCalls' = <<>>
  /\ pubPc' = "rename"
  /\ pubExit' = None
  /\ UNCHANGED <<prog, toolVars, mergeVars, reactVars, httpVars, mkVars, distExists, pkgName, registry>>

PubNext ==
  \/ publish
  \/ RenameThrows
  \/ renameTok8sWeb
  \/ NpmPublishAngular
  \/ NpmPublishReact
  \/ RevertAfterSuccess
  \/ RevertAfterFailure

\* ================================================= MAKEFILE AND VERSIONS
\* Bound of the version arguments tried, and the characters they are made of.
MaxVersionLen == 3
VersionChars == {"1", ".", "a"}
Digits == {"0", "1", "2", "3", "4", "5", "6", "7", "8", "9"}

VersionArgs == UNION {[1..n -> VersionChars] : n \in 0..MaxVersionLen}

\* Mutant: the pattern without its anchors (grep -E '[0-9]+\.[0-9]+').
MatchesVersionUnanchored(v) ==
  \E i \in 2..(Len(v) - 1) : v[i] = "." /\ v[i - 1] \in Digits /\ v[i + 1] \in Digits

\* grep -qE '^[0-9]+\.[0-9]+$'
MatchesVersion(v) ==
  \E i \in 2..(Len(v) - 1) :
    /\ v[i] = "."
    /\ \A j \in 1..Len(v) : j # i => v[j] \in Digits

\* The entry points that take a Kubernetes version: make <version>,
\* make angular|react <version>, make update-version VERSION=<v>, and
\* node scripts/update-versions.js <v>.
Entries == {"make-version", "make-angular", "make-react", "make-update-version",
            "update-versions.js"}

\* make test takes no argument.
TestEntries == {"make-test"}

\* What each entry point checks before it does anything.
Accepts(entry, v) ==
  IF entry \in {"make-version", "make-angular", "make-react"} THEN MatchesVersion(v)
  ELSE IF entry \in TestEntries THEN TRUE
  ELSE v # EmptyStr

\* The commands of the recipe an accepted argument runs, in order. make test
\* first makes its prerequisites test-angular and test-react, each of which
\* checks the apiserver (starting it when it is not running) and runs its
\* tests, and then runs its own recipe, which stops the containers.
Recipe(entry, publishFlag) ==
  IF entry \in {"make-update-version", "update-versions.js"}
  THEN <<"update-versions.js">>
  ELSE IF entry \in TestEntries
  THEN <<"check-apiserver", "test-angular", "check-apiserver", "test-react",
         "stop-apiserver">>
  ELSE <<"stop-apiserver", "compose-up", "update-versions.js", "fetch-specs",
         "generate", "build", "test", "stop-apiserver">>
       \o (IF publishFlag THEN <<"publish">> ELSE <<>>)

\* The commands of the version recipes are joined by ";" in one shell without
\* -e: a failing command does not stop the recipe, and the recipe's status is
\* its last command's (the publish, or an echo). The update-version recipe
\* and the script end with the status of update-versions.js. make test is
\* made of recipe lines and prerequisites of their own: make stops at the
\* first one that fails.
StopsOnFailure(entry) ==
  entry \in {"make-update-version", "update-versions.js"} \cup TestEntries

\* node exits with the status given to process.exit; make exits with 2 when
\* a recipe fails.
FailureStatus(entry) == IF entry = "update-versions.js" THEN 1 ELSE 2

\* stop-apiserver ends in "|| true".
CanFail(step) == step # "stop-apiserver"

\* Whether the containers run after a step. docker compose up and the
\* apiserver check leave them running when they succeed, docker compose down
\* stops them; the tests leave them as they are. The test step of the version
\* recipes is a make of its own: make test stops them when it succeeds,
\* make test-<framework> leaves them running, and a failed one has started
\* them or not.
ContainersAfter(step, ok, up, entry) ==
  IF step = "stop-apiserver" THEN {FALSE}
  ELSE IF step \in {"compose-up", "check-apiserver"} THEN {up \/ ok}
  ELSE IF step = "test" THEN (IF ok THEN {entry # "make-version"} ELSE {up, TRUE})
  ELSE {up}

MkIdle ==
  /\ mkEntry = "none"
  /\ mkArg = <<>>
  /\ mkPublish = FALSE
  /\ mkPc = "off"
  /\ mkLog = <<>>
  /\ containerStarted = FALSE
  /\ containersUp = FALSE
  /\ pkgModified = FALSE
  /\ mkExit = None

\* An entry point with a version argument is run, or make test is run, with
\* the containers of an earlier run still there or not.
MkStart ==
  /\ \/ /\ mkEntry \in Entries
        /\ mkArg \in VersionArgs
        /\ mkPublish \in BOOLEAN
        /\ containersUp = FALSE
     \/ /\ mkEntry \in TestEntries
        /\ mkArg = <<>>
        /\ mkPublish = FALSE
        /\ containersUp \in BOOLEAN
  /\ mkPc = "start"
  /\ mkLog = <<>>
  /\ containerStarted = FALSE
  /\ pkgModified = FALSE
  /\ mkExit = None

\* The argument is refused: an error message and exit 1.
RejectVersion ==
  /\ prog = "make" /\ mkPc = "start"
  /\ ~Accepts(mkEntry, mkArg)
  /\ mkPc' = "ended"
  /\ mkExit' = Some(FailureStatus(mkEntry))
  /\ UNCHANGED <<prog, toolVars, mergeVars, reactVars, httpVars, pubVars, mkEntry, mkArg,
                 mkPublish, mkLog, containerStarted, containersUp, pkgModified>>

AcceptVersion ==
  /\ prog = "make" /\ mkPc = "start"
  /\ Accepts(mkEntry, mkArg)
  /\ mkPc' = "recipe"
  /\ UNCHANGED <<prog, toolVars, mergeVars, reactVars, httpVars, pubVars, mkEntry, mkArg,
                 mkPublish, mkLog, containerStarted, containersUp, pkgModified, mkExit>>

\* The next command of the recipe runs and succeeds or fails.
RecipeStep ==
  /\ prog = "make" /\ mkPc = "recipe"
  /\ LET recipe == Recipe(mkEntry, mkPublish)
         step == recipe[Len(mkLog) + 1]
     IN  \E ok \in BOOLEAN :
           /\ ok \/ (CanFail(step) /\ ~(step = "check-apiserver" /\ containersUp))
           /\ mkLog' = Append(mkLog, [step |-> step, ok |-> ok])
           /\ containerStarted' =
                (containerStarted
                 \/ (step = "compose-up" /\ ok)
                 \/ (step = "check-apiserver" /\ ok /\ ~containersUp))
           /\ containersUp' \in ContainersAfter(step, ok, containersUp, mkEntry)
           /\ pkgModified' = (pkgModified \/ (step = "update-versions.js" /\ ok))
           /\ IF Len(mkLog) + 1 = Len(recipe) \/ (~ok /\ StopsOnFailure(mkEntry))
              THEN /\ mkPc' = "ended"
                   /\ mkExit' = Some(IF ~ok /\ (StopsOnFailure(mkEntry) \/ step = "publish")
                                     THEN FailureStatus(mkEntry) ELSE 0)
              ELSE UNCHANGED <<mkPc, mkExit>>
  /\ UNCHANGED <<prog, toolVars, mergeVars, reactVars, httpVars, pubVars, mkEntry, mkArg, mkPublish>>

MkNext ==
  \/ RejectVersion
  \/ AcceptVersion
  \/ RecipeStep

\* ===================================================== GENERATION PIPELINE
\* String.prototype.endsWith
EndsWith(s, suffix) ==
  /\ Len(s) >= Len(suffix)
  /\ SubSeq(s, Len(s) - Len(suffix) + 1, Len(s)) = suffix

JsonExt == <<".", "j", "s", "o", "n">>
Underscore == <<"_">>

\* The file names tried in the specs directory: a group's spec, the merged
\* document of an earlier run, a second group's spec and a file that is no
\* JSON document.
GroupSpecName == <<"a">> \o JsonExt
OtherSpecName == <<"b">> \o JsonExt
MergedSpecName == <<"_", "m">> \o JsonExt
NotesName == <<"a", ".", "t", "x", "t">>
FileNames == {GroupSpecName, OtherSpecName, MergedSpecName, NotesName}

\* Mutant: every .json file of the directory is merged.
EligibleSpecsAnyJson(names) == {f \in names : EndsWith(f, JsonExt)}

\* readdirSync(specsDir).filter((f) => f.endsWith('.json') && !f.startsWith('_'))
EligibleSpecs(names) ==
  {f \in names : EndsWith(f, JsonExt) /\ ~StartsWith(f, Underscore)}

Clients == {"angular", "react-query"}

\* The steps of generateClients after its two checks, in the order of the code.
\* hooks.ts is written for react-query only.
Pipeline(client) ==
  <<"merge", "generate", "injectJSDocs", "index">>
  \o (IF client = "react-query" THEN <<"hooks">> ELSE <<>>)
  \o <<"format", "lint">>

\* What a step can end with. The lint pass can also end with errors left
\* after the automatic fixes.
StepResults(step) ==
  IF step = "lint" THEN {"ok", "throws", "errors"} ELSE {"ok", "throws"}

\* What generateClients does with a step's failure: the first try block and
\* the lint pass call process.exit(1); the index and hooks writing is outside
\* every try block, so the promise is rejected and node ends the process with
\* status 1; the formatting pass logs the error and goes on.
\* Mutant: the lint pass's failures are logged and passed over as well.
SwallowedAlsoLint(step) == step \in {"format", "lint"}

Swallowed(step) == step = "format"

GenIdle ==
  /\ genClient = "none"
  /\ specsDir = None
  /\ genPc = "off"
  /\ genLog = <<>>
  /\ genExit = None

GenStart ==
  /\ genClient \in Clients
  /\ specsDir \in {None} \cup {Some(names) : names \in SUBSET FileNames}
  /\ genPc = "start"
  /\ genLog = <<>>
  /\ genExit = None

\* The specs directory is missing, or holds no eligible file: process.exit(1).
NoSpecs ==
  /\ prog = "generate" /\ genPc = "start"
  /\ \A names \in specsDir : EligibleSpecs(names) = {}
  /\ genPc' = "ended"
  /\ genExit' = Some(1)
  /\ UNCHANGED <<prog, mergeVars, reactVars, httpVars, pubVars, mkVars, policyVars, regenVars, fetchVars, docVars,
                 genClient, specsDir, genLog>>

FoundSpecs ==
  /\ prog = "generate" /\ genPc = "start"
  /\ \E names \in specsDir : EligibleSpecs(names) # {}
  /\ genPc' = Pipeline(genClient)[1]
  /\ UNCHANGED <<prog, mergeVars, reactVars, httpVars, pubVars, mkVars, policyVars, regenVars, fetchVars, docVars,
                 genClient, specsDir, genLog, genExit>>

\* The next step of the pipeline runs. The merge step writes _merged.json
\* into the specs directory.
PipelineStep ==
  /\ prog = "generate" /\ genPc \notin {"off", "start", "ended"}
  /\ LET steps == Pipeline(genClient)
         i == Len(genLog) + 1
     IN  \E result \in StepResults(genPc) :
           /\ genLog' = Append(genLog, [step |-> genPc, result |-> result])
           /\ specsDir' = IF genPc = "merge" /\ result = "ok"
                          THEN Some(Val(specsDir) \cup {MergedSpecName})
                          ELSE specsDir
           /\ IF result # "ok" /\ ~Swallowed(genPc)
              THEN genPc' = "ended" /\ genExit' = Some(1)
              ELSE IF i = Len(steps)
              THEN genPc' = "ended" /\ genExit' = Some(0)
              ELSE genPc' = steps[i + 1] /\ UNCHANGED genExit
  /\ UNCHANGED <<prog, mergeVars, reactVars, httpVars, pubVars, mkVars, policyVars, regenVars, fetchVars, docVars, genClient>>

GenNext ==
  \/ NoSpecs
  \/ FoundSpecs
  \/ PipelineStep

\* ============================================================ SPEC FETCHER
\* Bound of the number of groups in a discovery document.
MaxGroups == 3

ApiSlash == <<"a", "p", "i", "/">>
ApisSlash == <<"a", "p", "i", "s", "/">>

\* The discovery keys tried: the core group, named groups with and without
\* dots and dashes, and keys without a group segment.
DiscoveryKeys ==
  { ApiSlash \o <<"v">>,
    ApisSlash \o <<"g", "/", "v">>,
    ApisSlash \o <<"g", ".", "h", "/", "v">>,
    ApisSlash \o <<"g", "-", "h", "/", "v">>,
    ApisSlash \o <<"v">>,
    <<"a", "p", "i">> }

Drop(s, n) == SubSeq(s, n + 1, Len(s))

\* groupName.replace(/^apis?\//, '').replace(/\//g, '-').replace(/\./g, '-')
sanitizeGroupName(groupName) ==
  LET stripped == IF StartsWith(groupName, ApisSlash) THEN Drop(groupName, Len(ApisSlash))
                  ELSE IF StartsWith(groupName, ApiSlash) THEN Drop(groupName, Len(ApiSlash))
                  ELSE groupName
  IN  [i \in 1..Len(stripped) |->
         IF stripped[i] \in {"/", "."} THEN "-" ELSE stripped[i]]

\* path.join('openapi-specs', `${groupName}.json`)
SpecPath(pathKey) == sanitizeGroupName(pathKey) \o JsonExt

FetchIdle ==
  /\ discovery = {}
  /\ fetchPending = {}
  /\ specsWritten = <<>>
  /\ fetchPc = "off"
  /\ fetchExit = None

FetchStart ==
  /\ discovery \in {ks \in SUBSET DiscoveryKeys : Cardinality(ks) <= MaxGroups}
  /\ fetchPending = {}
  /\ specsWritten = <<>>
  /\ fetchPc = "start"
  /\ fetchExit = None

\* fetchOpenAPIDiscovery answers, or throws and the script exits with 1.
fetchOpenAPIDiscovery ==
  /\ prog = "fetch" /\ fetchPc = "start"
  /\ \E ok \in BOOLEAN :
       IF ok THEN /\ fetchPc' = "loop"
                  /\ fetchPending' = discovery
                  /\ UNCHANGED fetchExit
             ELSE /\ fetchPc' = "ended"
                  /\ fetchExit' = Some(1)
                  /\ UNCHANGED fetchPending
  /\ UNCHANGED <<prog, mergeVars, reactVars, httpVars, pubVars, mkVars, policyVars, regenVars, genVars, docVars,
                 discovery, specsWritten>>

\* One round of the loop: the group's spec is fetched and written to its
\* file, or the fetch throws and the script exits with 1.
fetchOpenAPISpec ==
  /\ prog = "fetch" /\ fetchPc = "loop"
  /\ \E pathKey \in fetchPending, ok \in BOOLEAN :
       IF ok THEN /\ specsWritten' =
                       [f \in DOMAIN specsWritten \cup {SpecPath(pathKey)} |->
                          IF f = SpecPath(pathKey) THEN pathKey ELSE specsWritten[f]]
                  /\ fetchPending' = fetchPending \ {pathKey}
                  /\ UNCHANGED <<fetchPc, fetchExit>>
             ELSE /\ fetchPc' = "ended"
                  /\ fetchExit' = Some(1)
                  /\ UNCHANGED <<fetchPending, specsWritten>>
  /\ UNCHANGED <<prog, mergeVars, reactVars, httpVars, pubVars, mkVars, policyVars, regenVars, genVars, docVars, discovery>>

\* Every group is processed: the script ends.
FetchComplete ==
  /\ prog = "fetch" /\ fetchPc = "loop"
  /\ fetchPending = {}
  /\ fetchPc' = "ended"
  /\ fetchExit' = Some(0)
  /\ UNCHANGED <<prog, mergeVars, reactVars, httpVars, pubVars, mkVars, policyVars, regenVars, genVars, docVars,
                 discovery, fetchPending, specsWritten>>

FetchNext ==
  \/ fetchOpenAPIDiscovery
  \/ fetchOpenAPISpec
  \/ FetchComplete

\* ========================================================= JSDOC INJECTION
\* Bounds: the lines of a generated file, and the passes of injectJSDocs.
MaxLines == 3
MaxPasses == 2

\* A generated file is a sequence of lines, each known by its kind:
\*   "decl"     the declaration of the operation's function, as one of the
\*              patterns matches it (export const f = , export function f(,
\*              or the indented f( of a service method)
\*   "code"     any other line of code
\*   "blank"    an empty line
\*   "docOpen"  /**          "docText"  " * some text"
\*   "docStar"  " *"         "docClose" " */"
LineKinds == {"decl", "code", "blank", "docOpen", "docText", "docStar", "docClose"}

\* The lines the generator's output is made of here: a "docClose" line is
\* the end of a documentation block the generator wrote itself.
GeneratedKinds == {"decl", "code", "blank", "docStar", "docClose"}

GeneratedFiles == UNION {[1..n -> GeneratedKinds] : n \in 1..MaxLines}

\* Operations: with and without parameters.
Operations == {[parameters |-> FALSE], [parameters |-> TRUE]}

\* generateJSDoc(operation), line by line.
generateJSDoc(operation) ==
  <<"docOpen", "docText">>
  \o (IF operation.parameters THEN <<"docStar", "docText">> ELSE <<>>)
  \o <<"docClose">>

\* Whether the last character of a line is "*".
EndsWithStar(kind) == kind \in {"docOpen", "docStar"}

\* Mutant: the pattern looks for the end of a documentation block.
PrecededByStarOrDocEnd(content, i) ==
  content[i - 1] \in {"docOpen", "docStar", "docClose"}

\* The lookbehind (?<!\*) in front of the \n of the patterns: the character
\* before the line break that precedes the declaration is "*". After an
\* empty line that character is a line break.
PrecededByStar(content, i) == EndsWithStar(content[i - 1])

\* The lines a pattern matches: a declaration that has a line break in
\* front of it (it is not the first line) and passes the lookbehind.
Matches(content) ==
  {i \in 2..Len(content) : content[i] = "decl" /\ ~PrecededByStar(content, i)}

\* content.replace(pattern, `\n${jsDoc}\n$1`) with the g flag.
RECURSIVE Replace(_, _, _)
Replace(content, jsDoc, i) ==
  IF i > Len(content) THEN <<>>
  ELSE (IF i \in Matches(content) THEN jsDoc ELSE <<>>)
       \o <<content[i]>> \o Replace(content, jsDoc, i + 1)

\* prettier.format on the lines: empty lines at the beginning go, runs of
\* empty lines become one; comments and code lines stay.
RECURSIVE PrettierFormat(_, _)
PrettierFormat(content, prev) ==
  IF content = <<>> THEN <<>>
  ELSE IF Head(content) = "blank" /\ prev \in {"start", "blank"}
  THEN PrettierFormat(Tail(content), prev)
  ELSE <<Head(content)>> \o PrettierFormat(Tail(content), Head(content))

DocIdle ==
  /\ docOperation = None
  /\ docFile = <<>>
  /\ docPrev = <<>>
  /\ docPasses = 0

DocStart ==
  /\ docOperation \in {Some(op) : op \in Operations}
  /\ docFile \in GeneratedFiles
  /\ docPrev = <<>>
  /\ docPasses = 0

\* One pass over the file: it is rewritten (and formatted) when a pattern
\* matched.
injectJSDocs ==
  /\ prog = "jsdoc" /\ docPasses < MaxPasses
  /\ docPrev' = docFile
  /\ docFile' = IF Matches(docFile) # {}
                THEN PrettierFormat(Replace(docFile, generateJSDoc(Val(docOperation)), 1),
                                    "start")
                ELSE docFile
  /\ docPasses' = docPasses + 1
  /\ UNCHANGED <<prog, mergeVars, reactVars, httpVars, pubVars, mkVars, policyVars, regenVars, genVars, fetchVars,
                 docOperation>>

DocNext == injectJSDocs

\* ============================================================ RETRY POLICY
\* The retry interceptor's delay callback under the configurations an
\* application can pass: every call of the backend fails with a retryable
\* status on a Kubernetes API URL, so each failure asks the callback for the
\* next delay until retry({count}) gives up.
MaxRetryCount == 4

\* RetryConfig: every property is optional.
RetryOverrides ==
  [maxRetries : {None, Some(0), Some(MaxRetryCount)},
   initialDelay : {None, Some(0), Some(2000), Some(40000)},
   maxDelay : {None, Some(3000)},
   backoffMultiplier : {None, Some(0), Some(1), Some(3)}]

\* { ...DEFAULT_RETRY_CONFIG, ...config }
MergedRetryConfig(config) ==
  [f \in DOMAIN DEFAULT_RETRY_CONFIG |->
     IF f \in DOMAIN config /\ config[f] # None THEN Val(config[f])
     ELSE DEFAULT_RETRY_CONFIG[f]]

PolicyIdle ==
  /\ retryOverride = None
  /\ retryDelays = <<>>
  /\ policyPc = "off"

PolicyStart ==
  /\ retryOverride \in {Some(o) : o \in RetryOverrides}
  /\ retryDelays = <<>>
  /\ policyPc = "retrying"

\* retry's delay callback is called for the (Len(retryDelays) + 1)-th retry.
RetryDelay ==
  /\ prog = "policy" /\ policyPc = "retrying"
  /\ LET rc == MergedRetryConfig(Val(retryOverride))
     IN  /\ WithinCount(rc, Len(retryDelays))
         /\ retryDelays' = Append(retryDelays, BackoffDelay(rc, Len(retryDelays) + 1))
  /\ UNCHANGED <<prog, mergeVars, reactVars, httpVars, pubVars, mkVars,
                 genVars, fetchVars, docVars, regenVars, retryOverride, policyPc>>

\* retry({count}) has used up its count: the error goes to the caller.
RetryExhausted ==
  /\ prog = "policy" /\ policyPc = "retrying"
  /\ ~WithinCount(MergedRetryConfig(Val(retryOverride)), Len(retryDelays))
  /\ policyPc' = "exhausted"
  /\ UNCHANGED <<prog, mergeVars, reactVars, httpVars, pubVars, mkVars,
                 genVars, fetchVars, docVars, regenVars, retryOverride, retryDelays>>

PolicyNext ==
  \/ RetryDelay
  \/ RetryExhausted

\* ====================================================== REPEATED GENERATION
\* generateClients run again and again over one specs directory: each run
\* lists the directory, merges the eligible files and writes _merged.json
\* beside them. The later steps of a run do not touch the directory.
MaxRuns == 3

\* The contents tried for the two fetched specs and for a _merged.json that an
\* earlier run over other specs has left.
FetchedShapes ==
  {sh \in Shapes :
     /\ WellFormedShape(sh) /\ sh.hasComponents /\ sh.parameters # None
     /\ sh.paths # None /\ sh.schemas # None}

StaleMerged ==
  [paths |-> Some(Section(0, PathKeys)),
   components |-> Some(("schemas" :> Section(0, SchemaKeys))),
   servers |-> Some(0)]

\* The content of a file that is no spec; it is never parsed.
NotesContent == [paths |-> None, components |-> None, servers |-> None]

\* readdirSync lists the names in one fixed order.
DirOrder == <<MergedSpecName, GroupSpecName, NotesName, OtherSpecName>>

Listed(names) == SelectSeq(DirOrder, LAMBDA f : f \in names)

\* specFiles, and the documents mergeOpenAPISpecs reads for them.
SpecContents(dir) ==
  LET specFileNames == Listed(EligibleSpecs(DOMAIN dir))
  IN  [i \in DOMAIN specFileNames |-> dir[specFileNames[i]]]

RegenIdle ==
  /\ regenDir = <<>>
  /\ regenRuns = <<>>

RegenStart ==
  /\ \E names \in SUBSET FileNames, shA, shB \in FetchedShapes :
       regenDir = [f \in names |->
                     IF f = GroupSpecName THEN SpecFile(1, shA)
                     ELSE IF f = OtherSpecName THEN SpecFile(2, shB)
                     ELSE IF f = MergedSpecName THEN StaleMerged
                     ELSE NotesContent]
  /\ regenRuns = <<>>

\* A run that finds no eligible file: process.exit(1), nothing is written.
RunWithoutSpecs ==
  /\ prog = "regenerate" /\ Len(regenRuns) < MaxRuns
  /\ EligibleSpecs(DOMAIN regenDir) = {}
  /\ regenRuns' = Append(regenRuns, None)
  /\ UNCHANGED <<prog, mergeVars, reactVars, httpVars, pubVars, mkVars,
                 genVars, fetchVars, docVars, policyVars, regenDir>>

\* A run that merges: writeFileSync(mergedSpecPath, JSON.stringify(mergedSpec)).
RunMerges ==
  /\ prog = "regenerate" /\ Len(regenRuns) < MaxRuns
  /\ EligibleSpecs(DOMAIN regenDir) # {}
  /\ LET mergedDoc == mergeOpenAPISpecs(SpecContents(regenDir))
         written == [paths |-> Some(mergedDoc.paths),
                     components |-> Some(mergedDoc.components),
                     servers |-> mergedDoc.servers]
     IN  /\ regenRuns' = Append(regenRuns, Some(mergedDoc))
         /\ regenDir' = [f \in DOMAIN regenDir \cup {MergedSpecName} |->
                           IF f = MergedSpecName THEN written ELSE regenDir[f]]
  /\ UNCHANGED <<prog, mergeVars, reactVars, httpVars, pubVars, mkVars,
                 genVars, fetchVars, docVars, policyVars>>

RegenNext ==
  \/ RunWithoutSpecs
  \/ RunMerges

\* ----------------------------------------------------------- merger claims
MergeDone == prog = "merge" /\ mergedSpec # None
Merged == Val(mergedSpec)

PathKeysOf(spec) == IF spec.paths = None THEN {} ELSE DOMAIN Val(spec.paths)

ComponentKeysOf(spec, t) ==
  IF spec.components # None /\ t \in DOMAIN Val(spec.components)
  THEN DOMAIN Val(spec.components)[t] ELSE {}

HasComponentType(spec, t) ==
  spec.components # None /\ t \in DOMAIN Val(spec.components)

\* The last file, in iteration order, that defines path key k.
LastWithPath(k) ==
  CHOOSE j \in 1..Len(specFiles) :
    /\ k \in PathKeysOf(specFiles[j])
    /\ \A l \in (j + 1)..Len(specFiles) : k \notin PathKeysOf(specFiles[l])

LastWithComponent(t, k) ==
  CHOOSE j \in 1..Len(specFiles) :
    /\ k \in ComponentKeysOf(specFiles[j], t)
    /\ \A l \in (j + 1)..Len(specFiles) : k \notin ComponentKeysOf(specFiles[l], t)

\* C1: for two input documents with disjoint path key sets, the merged
\* document has as many path keys as the two inputs together.
C1_DisjointPathsSum ==
  (MergeDone /\ Len(specFiles) = 2
     /\ PathKeysOf(specFiles[1]) \cap PathKeysOf(specFiles[2]) = {})
  => Cardinality(DOMAIN Merged.paths)
       = Cardinality(PathKeysOf(specFiles[1])) + Cardinality(PathKeysOf(specFiles[2]))

C1_Witness ==
  /\ MergeDone /\ Len(specFiles) = 2
  /\ PathKeysOf(specFiles[1]) # {} /\ PathKeysOf(specFiles[2]) # {}
  /\ PathKeysOf(specFiles[1]) \cap PathKeysOf(specFiles[2]) = {}
  /\ Cardinality(DOMAIN Merged.paths) = 2

\* C2: a path key (or schema name) that two input documents both define has
\* one entry in the merged document, the definition of the later document,
\* and the merge raises no error and logs no warning.
C2_LaterWins ==
  MergeDone =>
    /\ \A i \in 1..Len(specFiles) : \A j \in (i + 1)..Len(specFiles) :
         /\ \A k \in PathKeysOf(specFiles[i]) \cap PathKeysOf(specFiles[j]) :
              /\ k \in DOMAIN Merged.paths
              /\ Merged.paths[k] = Val(specFiles[LastWithPath(k)].paths)[k]
         /\ \A k \in ComponentKeysOf(specFiles[i], "schemas")
                       \cap ComponentKeysOf(specFiles[j], "schemas") :
              /\ k \in DOMAIN Merged.components["schemas"]
              /\ Merged.components["schemas"][k]
                   = Val(specFiles[LastWithComponent("schemas", k)].components)["schemas"][k]
    /\ mergeLog = <<>>

C2_Witness ==
  /\ MergeDone /\ Len(specFiles) = 2
  /\ "/api/v1/pods" \in PathKeysOf(specFiles[1]) \cap PathKeysOf(specFiles[2])
  /\ "Pod" \in ComponentKeysOf(specFiles[1], "schemas")
                 \cap ComponentKeysOf(specFiles[2], "schemas")
  /\ Merged.paths["/api/v1/pods"] = 2
  /\ Merged.components["schemas"]["Pod"] = 2

\* C3: the key set of merged.paths, of merged.components.schemas and of
\* every other components section is the union of the inputs' key sets, and
\* every entry is the one of the last document that defines its key.
C3_KeywiseUnion ==
  MergeDone =>
    /\ DOMAIN Merged.paths = UNION {PathKeysOf(specFiles[i]) : i \in 1..Len(specFiles)}
    /\ \A k \in DOMAIN Merged.paths :
         Merged.paths[k] = Val(specFiles[LastWithPath(k)].paths)[k]
    /\ DOMAIN Merged.components =
         {"schemas"} \cup {t \in {"schemas", "parameters"} :
                             \E i \in 1..Len(specFiles) : HasComponentType(specFiles[i], t)}
    /\ \A t \in DOMAIN Merged.components :
         /\ DOMAIN Merged.components[t]
              = UNION {ComponentKeysOf(specFiles[i], t) : i \in 1..Len(specFiles)}
         /\ \A k \in DOMAIN Merged.components[t] :
              Merged.components[t][k]
                = Val(specFiles[LastWithComponent(t, k)].components)[t][k]

C3_Witness ==
  /\ MergeDone /\ Len(specFiles) = 2
  /\ PathKeysOf(specFiles[1]) = {"/api/v1/pods"}
  /\ PathKeysOf(specFiles[2]) = {"/apis/apps/v1/deployments"}
  /\ ComponentKeysOf(specFiles[1], "parameters") = {"limit"}
  /\ ~HasComponentType(specFiles[2], "parameters")
  /\ ComponentKeysOf(specFiles[2], "schemas") = {"Pod"}
  /\ DOMAIN Merged.paths = PathKeys
  /\ DOMAIN Merged.components = {"schemas", "parameters"}

\* C4 (as claimed): the servers block of the merged document, when it has
\* one, is the servers block of the first input document.
C4_ServersOfFirstDocument ==
  (MergeDone /\ Merged.servers # None)
  => (Len(specFiles) >= 1 /\ specFiles[1].servers = Merged.servers)

\* ------------------------------------------------------ client shim claims
\* A configuration lacks baseURL when its baseURL is missing or empty.
LacksBaseURL(cfg) == ~Truthy(cfg.baseURL)

Installed(name) == \E i \in DOMAIN chain : chain[i] = name
Before(a, b) == Installed(a) /\ Installed(b) /\ IndexOf(chain, a) < IndexOf(chain, b)

\* A Kubernetes API request of the Angular client: a generated service's
\* relative path, which the client interceptor rewrites.
K8sApiRequest ==
  /\ httpReq # None
  /\ Val(httpReq).url \in {CorePath, GroupPath}
  /\ Installed("client")

HttpDone == prog = "angular" /\ httpPc = "done"

\* C5 (as claimed): with a configuration that lacks baseURL every request
\* fails with the client's configuration error and the network layer (fetch,
\* the next HTTP handler) is not invoked for it.
C5_NoBaseURLConfigError ==
  /\ \A c \in reactCall :
       LacksBaseURL(c.cfg) => (c.result = "ConfigError" /\ c.fetched = None)
  /\ (prog = "angular" /\ K8sApiRequest /\ LacksBaseURL(ngConfig))
       => (outcome = Some(ConfigError) /\ backendReqs = <<>>)

\* The setup of the retry interceptor's documentation: the client interceptor
\* first, then the retry interceptor, and no error interceptor.
RetrySetup == Before("client", "retry") /\ ~Installed("error")

\* The backend fails k times with a retryable status and then succeeds.
FailsThenSucceeds(k) ==
  /\ \A i \in 1..k : script[i] \in retryConfig.retryableStatusCodes
  /\ ResponseOk(script[k + 1])

\* C6 (as claimed): with the retry interceptor installed, a Kubernetes API
\* request that fails k times (1 <= k <= maxRetries) with a retryable status
\* and then succeeds ends with the successful response after k + 1 calls of
\* the transport.
C6_RetryUntilSuccess ==
  \A k \in 1..maxRetries :
    (HttpDone /\ RetrySetup /\ K8sApiRequest /\ backendReqs # <<>> /\ FailsThenSucceeds(k))
    => /\ Val(outcome).name = "HttpResponse"
       /\ Len(backendReqs) = k + 1

\* C7: a request whose first failure has a status outside the retryable list
\* is never retried: one call of the transport, no backoff timer, and the
\* caller receives that error.
C7_NonRetryableOnce ==
  (prog = "angular" /\ Installed("retry") /\ backendReqs # <<>>
     /\ ~ResponseOk(script[1]) /\ script[1] \notin retryConfig.retryableStatusCodes)
  => /\ Len(backendReqs) = 1
     /\ timers = <<>>
     /\ httpPc \in {"waiting", "done"}
     /\ httpPc = "done" =>
          /\ Val(outcome).name \in {"HttpErrorResponse", "K8sApiError"}
          /\ script[1] \in Val(outcome).status \cup Val(outcome).statusCode

C7_Witness ==
  /\ HttpDone /\ chain = <<"client", "retry">>
  /\ Val(httpReq).url = CorePath
  /\ script[1] = 404
  /\ Len(backendReqs) = 1
  /\ Val(outcome).name = "HttpErrorResponse"
  /\ Val(outcome).status = Some(404)

\* C9 (as claimed): with the error interceptor installed after the client
\* interceptor, a failing Kubernetes API request whose response body is a
\* Status object is rethrown as a K8sApiError with the HTTP status as
\* statusCode and the body's message, reason and details; the error of a
\* request that is not recognised as a Kubernetes API call is rethrown
\* unchanged.
C9_StatusTranslated ==
  (HttpDone /\ Before("client", "error") /\ ~Installed("retry") /\ backendError # None)
  => LET error == Val(backendError)
         seen == ReqAt(chain, ngConfig, Val(httpReq), IndexOf(chain, "error")).url
     IN  /\ (K8sApiRequest /\ error.error # None /\ Val(error.error).kind = <<"Status">>)
              => /\ Val(outcome).name = "K8sApiError"
                 /\ Val(outcome).statusCode = error.status
                 /\ Val(outcome).message = Val(error.error).message
                 /\ Val(outcome).reason = Val(error.error).reason
                 /\ Val(outcome).details = Val(error.error).details
         /\ ~TranslatesUrl(seen) => outcome = Some(error)

\* ---------------------------------------------------------- publish claims
\* C8: when the publish script has ended, after successful and after failed
\* npm publishes alike, every selected package's package.json carries its
\* original name; the shared name k8s-web is in a package.json only between
\* the rename step and the revert step.
C8_NamesReverted ==
  prog = "publish" =>
    /\ pubPc = "ended" => \A p \in Selected \cap DOMAIN pkgName : pkgName[p] = OriginalName(p)
    /\ \A p \in DOMAIN pkgName :
         pkgName[p] = "k8s-web"
           => (p \in Selected /\ pubPc \in {"npm-angular", "npm-react", "revert", "catch"})
    /\ pubPc \in {"npm-angular", "npm-react", "revert", "catch"}
         => \A p \in Selected : pkgName[p] = "k8s-web"

C8_Witness ==
  /\ prog = "publish" /\ pubPc = "ended" /\ framework = None
  /\ Len(npmCalls) = 2 /\ npmCalls[1].ok /\ ~npmCalls[2].ok
  /\ pubExit = Some(1)
  /\ pkgWritten = Packages
  /\ pkgName = [p \in Packages |-> OriginalName(p)]

\* C27: the publish script publishes sequentially, Angular before React: when
\* the Angular publish fails, the React publish is never attempted, the names
\* are reverted and the exit status is 1; when the React publish fails after
\* Angular succeeded the exit status is 1 as well; and the package.json of a
\* package that FRAMEWORK does not select is never written.
C27_PublishSequential ==
  prog = "publish" =>
    /\ Len(npmCalls) <= 2
    /\ \A i \in DOMAIN npmCalls :
         /\ npmCalls[i].package \in Selected
         /\ npmCalls[i].package = "react" /\ publishAngular
              => (i = 2 /\ npmCalls[1] = [package |-> "angular", ok |-> TRUE])
         /\ npmCalls[i].package = "angular" => i = 1
         /\ ~npmCalls[i].ok => i = Len(npmCalls)
    /\ (pubPc = "ended" /\ \E i \in DOMAIN npmCalls : ~npmCalls[i].ok)
         => /\ pubExit = Some(1)
            /\ \A p \in DOMAIN pkgName : pkgName[p] = OriginalName(p)
    /\ pkgWritten \subseteq Selected
    /\ \A p \in DOMAIN pkgName : p \notin Selected => pkgName[p] = OriginalName(p)

\* Both packages selected, the Angular publish fails: one npm call, exit 1.
C27_Witness ==
  /\ prog = "publish" /\ pubPc = "ended" /\ framework = None
  /\ npmCalls = <<[package |-> "angular", ok |-> FALSE]>>
  /\ pubExit = Some(1)
  /\ pkgWritten = Packages
  /\ pkgName = [p \in Packages |-> OriginalName(p)]

\* ------------------------------------------------------------ build claims
\* C10 (as claimed): every entry point that takes a version rejects an
\* argument that does not match ^[0-9]+\.[0-9]+$ with a non-zero exit, before
\* any container is started and before any package.json is modified.
C10_VersionValidated ==
  (prog = "make" /\ mkEntry \in Entries /\ ~MatchesVersion(mkArg))
  => /\ ~containerStarted
     /\ ~pkgModified
     /\ mkPc = "ended" => (mkExit # None /\ mkExit # Some(0))

\* ---------------------------------------------------- React client claims
\* The part of a URL behind its first "?".
QueryOf(url) ==
  IF \E i \in 1..Len(url) : url[i] = "?"
  THEN LET i == CHOOSE i \in 1..Len(url) : url[i] = "?" /\ \A j \in 1..(i - 1) : url[j] # "?"
       IN  SubSeq(url, i + 1, Len(url))
  ELSE <<>>

Unhex(h, l) ==
  IF <<h, l>> = <<"3", "D">> THEN "="
  ELSE IF <<h, l>> = <<"2", "6">> THEN "&"
  ELSE IF <<h, l>> = <<"2", "5">> THEN "%"
  ELSE IF <<h, l>> = <<"2", "B">> THEN "+"
  ELSE "?"

\* One pass of form decoding, as the API server does it.
RECURSIVE FormDecode(_)
FormDecode(str) ==
  IF str = <<>> THEN <<>>
  ELSE IF str[1] = "+" THEN <<" ">> \o FormDecode(Tail(str))
  ELSE IF str[1] = "%" /\ Len(str) >= 3
  THEN <<Unhex(str[2], str[3])>> \o FormDecode(SubSeq(str, 4, Len(str)))
  ELSE <<str[1]>> \o FormDecode(Tail(str))

\* The name/value pairs a server reads from a query string.
RECURSIVE ParseQuery(_)
ParseQuery(q) ==
  IF q = <<>> THEN <<>>
  ELSE LET n == IF \E i \in 1..Len(q) : q[i] = "&"
                THEN CHOOSE i \in 1..Len(q) : q[i] = "&" /\ \A j \in 1..(i - 1) : q[j] # "&"
                ELSE Len(q) + 1
           part == SubSeq(q, 1, n - 1)
       IN  << <<part[1], FormDecode(SubSeq(part, 3, Len(part)))>> >>
           \o ParseQuery(SubSeq(q, n + 1, Len(q)))

DefinedParams(params) ==
  {name \in DOMAIN params : params[name].kind \notin {"undefined", "null"}}

\* C14: a convenience hook hands the caller's labelSelector, fieldSelector,
\* limit and continue unchanged to the generated call, and the URL fetched
\* carries exactly the defined ones, each encoded once: a server decoding the
\* query once reads the caller's values back, and 'a=b' travels as 'a%3Db'.
C14_SelectorsForwardedEncoded ==
  \A c \in reactCall :
    c.params # None =>
      /\ \A name \in DOMAIN Val(c.params) :
           Val(c.params)[name] = IF c.options = None THEN Undefined ELSE Val(c.options)[name]
      /\ \A req \in c.fetched :
           LET pairs == ParseQuery(QueryOf(req.url))
           IN  /\ {pairs[i][1] : i \in 1..Len(pairs)} = DefinedParams(Val(c.params))
               /\ Len(pairs) = Cardinality(DefinedParams(Val(c.params)))
               /\ \A i \in 1..Len(pairs) : pairs[i][2] = Val(c.params)[pairs[i][1]].v
               /\ Val(c.params).labelSelector = Str(<<"a", "=", "b">>)
                    => Includes(req.url, <<"labelSelector", "=", "a", "%", "3", "D", "b">>)

C14_Witness ==
  \E c \in reactCall :
    /\ c.fetched # None
    /\ c.options # None
    /\ Val(c.options).fieldSelector = Str(<<"x", "&", "y">>)
    /\ Val(c.options).continue = Str(<<"c", " ", "d">>)
    /\ Len(ParseQuery(QueryOf(Val(c.fetched).url))) = 4

Settled(c) == c.result \in {"json", "SyntaxError", "HTTP error! status:"}

\* The origin of a base URL is the beginning of every URL resolved against it.
SentToBase(c, req) == StartsWith(req.url, Origin(Val(c.cfg.baseURL)))

\* C15 (as claimed): a response that is not ok rejects with an error carrying
\* the status and its body is never parsed; an ok response resolves with the
\* parsed JSON body; the request went to the configured base URL with the
\* method given and Authorization Bearer <token> when a token is configured.
C15_TransportOutcome ==
  \A c \in reactCall :
    /\ Settled(c) =>
         IF ResponseOk(c.status)
         THEN c.result = "json" /\ c.parsed
         ELSE c.result = "HTTP error! status:" /\ ~c.parsed
    /\ \A req \in c.fetched :
         /\ SentToBase(c, req)
         /\ req.method = c.method
         /\ c.cfg.token # EmptyStr
              => /\ "Authorization" \in DOMAIN req.headers
                 /\ req.headers["Authorization"] = <<"Bearer", c.cfg.token>>

\* What the transport does do: an ok response resolves with the parsed body
\* when the body is JSON and rejects with response.json()'s SyntaxError when
\* it is not, and the Authorization header is Bearer <token> when a token is
\* configured and the configured headers do not set Authorization themselves.
TransportOutcomeAsBuilt ==
  \A c \in reactCall :
    /\ Settled(c) =>
         IF ResponseOk(c.status)
         THEN /\ c.parsed
              /\ c.result = IF c.body = "json" THEN "json" ELSE "SyntaxError"
         ELSE c.result = "HTTP error! status:" /\ ~c.parsed
    /\ \A req \in c.fetched :
         /\ SentToBase(c, req)
         /\ req.method = c.method
         /\ (c.cfg.token # EmptyStr /\ "Authorization" \notin DOMAIN c.cfg.headers)
              => /\ "Authorization" \in DOMAIN req.headers
                 /\ req.headers["Authorization"] = <<"Bearer", c.cfg.token>>

\* C16: the client counts as configured exactly when K8S_API_URL was not
\* empty at load or configureK8sClient was called since load and since the
\* last reset; getK8sClientConfig throws its error exactly when the client is
\* not configured; after a reset the configuration is the load-time one, which
\* a token alone does not make configured.
C16_ConfiguredState ==
  prog = "react" =>
    /\ activeConfig.configured <=> (Truthy(envBaseURL) \/ configOp = "configure")
    /\ \A c \in reactCall : (c.result = "ConfigError") <=> ~c.cfg.configured
    /\ configOp \in {"load", "reset"} =>
         /\ activeConfig.baseURL = Some(OrEmpty(envBaseURL))
         /\ activeConfig.token = OrEmpty(envToken)
         /\ activeConfig.headers = EmptyObj
         /\ activeConfig.rejectUnauthorized = FALSE
    /\ (configOp \in {"load", "reset"} /\ ~Truthy(envBaseURL)) => ~activeConfig.configured

C16_Witness ==
  /\ prog = "react" /\ configOp = "reset"
  /\ envBaseURL = None /\ envToken = Some(Token)
  /\ activeConfig.token = Token /\ ~activeConfig.configured
  /\ \E c \in reactCall : c.result = "json" /\ c.cfg.configured

\* C20: one request makes at most maxRetries + 1 calls of the transport and
\* starts at most maxRetries backoff timers; when the first call and all
\* maxRetries retries fail with retryable statuses, the caller receives the
\* last error and no timer is left that no call has followed; and every
\* request that was sent ends with a response or an error.
C20_AttemptsBounded ==
  /\ [](prog = "angular" =>
          /\ Len(backendReqs) <= maxRetries + 1
          /\ Len(timers) <= maxRetries
          /\ Len(backendReqs) <= Len(timers) + 1
          /\ (httpPc = "done" /\ Len(backendReqs) = maxRetries + 1
                /\ \A i \in 1..(maxRetries + 1) : script[i] \in retryConfig.retryableStatusCodes)
               => /\ Val(outcome).name \in {"HttpErrorResponse", "K8sApiError"}
                  /\ script[maxRetries + 1] \in Val(outcome).status \cup Val(outcome).statusCode
                  /\ Len(timers) = maxRetries
          /\ (httpPc = "done" /\ backendReqs # <<>>) => Len(backendReqs) = Len(timers) + 1)
  /\ ((prog = "angular" /\ httpPc \in {"waiting", "backoff"}) ~> (httpPc = "done"))

C20_Witness ==
  /\ prog = "angular" /\ httpPc = "done"
  /\ Len(backendReqs) = maxRetries + 1
  /\ timers = <<1000, 2000, 4000>>
  /\ \A i \in 1..(maxRetries + 1) : script[i] = 503
  /\ Val(outcome).name = "HttpErrorResponse"
  /\ Val(outcome).status = Some(503)

\* The part of activeConfig that getK8sClientConfig hands to customInstance.
ConfigRead(cfg) ==
  [baseURL |-> cfg.baseURL, token |-> cfg.token, headers |-> cfg.headers,
   configured |-> cfg.configured]

\* C28: a React request reads the shared configuration once, when the call is
\* made: its base URL, token and custom headers all come from the
\* configuration of that moment, and a configureK8sClient or
\* resetK8sClientConfig call made while the request is in flight changes
\* neither its URL nor its headers.
C28_ConfigReadOnce ==
  /\ [](prog = "react" =>
          \A c \in reactCall :
            c.fetched # None =>
              /\ Val(c.fetched).url
                   = FullUrl(ResolveURL(c.url, Val(c.cfg.baseURL)), c.params)
              /\ Val(c.fetched).headers = RequestHeaders(c.cfg, EmptyObj)
              /\ Settled(c) => c.served = c.fetched)
  /\ [][prog = "react" =>
          /\ (reactCall' # reactCall /\ \E d \in reactCall' : d.served = None)
               => \A d \in reactCall' : d.cfg = ConfigRead(activeConfig)
          /\ \A c \in reactCall :
               c.result = "pending"
                 => \A d \in reactCall' : d.cfg = c.cfg /\ d.fetched = c.fetched]_vars

\* A request made under base URL and token was served after the client had
\* been reset to an unconfigured state.
C28_Witness ==
  /\ prog = "react"
  /\ \E c \in reactCall :
       /\ Settled(c) /\ c.served # None
       /\ c.cfg.token = Token
       /\ c.cfg # ConfigRead(activeConfig)
       /\ ~activeConfig.configured
       /\ Val(c.served).headers["Authorization"] = <<"Bearer", Token>>

\* config.x, or the default where the argument omits x.
OrDefault(o, default) == IF o # None THEN Val(o) ELSE default

\* C29 (as claimed): after configureK8sClient(c), getK8sClientConfig() returns
\* c's baseURL, and c's token, headers and rejectUnauthorized or the defaults
\* ('' / {} / false) where c omits them, regardless of earlier calls: a token
\* or header of a previous configuration does not survive a later one.
C29_ConfigureOverrides ==
  (prog = "react" /\ configArg # None)
  => LET c == Val(configArg)
     IN  /\ ~GetConfigThrows(activeConfig)
         /\ activeConfig.baseURL = c.baseURL
         /\ activeConfig.token = OrDefault(c.token, EmptyStr)
         /\ activeConfig.headers = OrDefault(c.headers, EmptyObj)
         /\ activeConfig.rejectUnauthorized = OrDefault(c.rejectUnauthorized, FALSE)

\* What the code does: configureK8sClient replaces baseURL, and replaces
\* token, headers and rejectUnauthorized only where the argument gives them.
ConfigureMerges ==
  (prog = "react" /\ configArg # None)
  => LET c == Val(configArg)
     IN  /\ ~GetConfigThrows(activeConfig)
         /\ activeConfig.baseURL = c.baseURL
         /\ c.token # None => activeConfig.token = Val(c.token)
         /\ c.headers # None => activeConfig.headers = Val(c.headers)
         /\ c.rejectUnauthorized # None
              => activeConfig.rejectUnauthorized = Val(c.rejectUnauthorized)

\* A token configured earlier is sent after a configuration without a token.
StaleTokenSent ==
  /\ prog = "react" /\ envToken = None
  /\ configArg # None /\ Val(configArg).token = None
  /\ \E c \in reactCall :
       /\ c.cfg = ConfigRead(activeConfig)
       /\ c.fetched # None
       /\ "Authorization" \in DOMAIN Val(c.fetched).headers
       /\ Val(c.fetched).headers["Authorization"] = <<"Bearer", Token>>

\* -------------------------------------------------------- generator claims
Ran(step) == \E i \in 1..Len(genLog) : genLog[i].step = step

Failed(i) == genLog[i].result # "ok"

\* C11: a missing specs directory, an empty spec set, a throwing generator and
\* lint errors left after the fixes each end generateClients with status 1,
\* and no step after the failing one runs.
C11_FailureExitsOne ==
  prog = "generate" =>
    /\ (genPc # "start" /\ (\A names \in specsDir : EligibleSpecs(names) = {}))
         => (genPc = "ended" /\ genExit = Some(1) /\ genLog = <<>>)
    /\ \A i \in 1..Len(genLog) :
         (genLog[i].step \in {"generate", "lint"} /\ Failed(i))
         => /\ Len(genLog) = i
            /\ genPc = "ended"
            /\ genExit = Some(1)

C11_Witness ==
  /\ prog = "generate" /\ genPc = "ended" /\ genExit = Some(1)
  /\ Len(genLog) = Len(Pipeline(genClient))
  /\ genLog[Len(genLog)] = [step |-> "lint", result |-> "errors"]
  /\ \A i \in 1..(Len(genLog) - 1) : ~Failed(i)

C11_NoSpecsWitness ==
  /\ prog = "generate" /\ genPc = "ended" /\ genExit = Some(1) /\ genLog = <<>>
  /\ specsDir = Some({MergedSpecName, NotesName})

\* C12 (as claimed): after a step of the pipeline has failed, no later step
\* runs and generateClients does not end with status 0.
C12_AnyFailureAborts ==
  prog = "generate" =>
    \A i \in 1..Len(genLog) :
      Failed(i) => /\ Len(genLog) = i
                   /\ genPc = "ended"
                   /\ genExit # Some(0)

\* ------------------------------------------------------ spec fetcher claims
\* C13 (as claimed): a completed fetchSpecs has written one file per key of
\* the discovery document, named by the sanitized key: n groups, n files.
C13_OneFilePerGroup ==
  (prog = "fetch" /\ fetchPc = "ended" /\ fetchExit = Some(0))
  => /\ DOMAIN specsWritten = {SpecPath(k) : k \in discovery}
     /\ Cardinality(DOMAIN specsWritten) = Cardinality(discovery)

\* ---------------------------------------------------- JSDoc injection claims
\* A documentation block ends right before line i.
DocBlockBefore(content, i) == i >= 2 /\ content[i - 1] = "docClose"

CountOf(content, kind) == Cardinality({i \in 1..Len(content) : content[i] = kind})

\* C17 (as claimed): a pass adds no block in front of a declaration that has
\* a documentation block right before it, so a pass over a file in which
\* every declaration is annotated leaves the file as it is - the second pass
\* in particular.
C17_InjectionIdempotent ==
  (prog = "jsdoc" /\ docPasses >= 1)
  => /\ (\A i \in 1..Len(docPrev) : docPrev[i] = "decl" => DocBlockBefore(docPrev, i))
          => docFile = docPrev
     /\ docPasses >= 2 => docFile = docPrev

\* C18 (as claimed): when make test has finished, the kube-apiserver and
\* etcd containers are stopped, whether the tests passed or a test target
\* failed.
C18_TestStopsContainers ==
  (prog = "make" /\ mkEntry \in TestEntries /\ mkPc = "ended") => ~containersUp

Succeeded(step) == \E i \in 1..Len(mkLog) : mkLog[i].step = step /\ mkLog[i].ok

FailedStep(step) == \E i \in 1..Len(mkLog) : mkLog[i].step = step /\ ~mkLog[i].ok

\* The steps a publish has to wait for.
BeforePublish == {"update-versions.js", "fetch-specs", "generate", "build", "test"}

\* C19 (as claimed): with PUBLISH=true, make <version> and make <framework>
\* <version> run the publish only after the version update, the spec fetch,
\* the generation, the build and the tests have all succeeded; when one of
\* them fails there is no publish and the target ends with a non-zero status.
C19_PublishAfterSuccess ==
  (prog = "make" /\ mkEntry \in {"make-version", "make-angular", "make-react"} /\ mkPublish)
  => /\ (\E i \in 1..Len(mkLog) : mkLog[i].step = "publish")
          => \A step \in BeforePublish : Succeeded(step)
     /\ (mkPc = "ended" /\ \E step \in BeforePublish : FailedStep(step))
          => (mkExit # None /\ mkExit # Some(0))

\* ------------------------------------------------ client interceptor claims
\* The headers the client interceptor adds from the configuration.
ConfiguredHeaderNames == {"Authorization"} \cup DOMAIN CustomHeaders

RelativeApiPath(url) ==
  StartsWith(url, ApiSegment) \/ StartsWith(url, <<"/", "a", "p", "i", "s", "/">>)

\* C26 (as claimed): the Angular client interceptor rewrites only requests
\* whose URL starts with '/'; every other request reaches the next handler
\* unchanged, so the configured token is never attached to a request whose
\* URL is not a relative Kubernetes API path.
C26_OnlyApiPathsRewritten ==
  (prog = "angular" /\ Installed("client") /\ backendReqs # <<>>)
  => \A i \in DOMAIN backendReqs :
       /\ ~StartsWith(Val(httpReq).url, <<"/">>) => backendReqs[i] = Val(httpReq)
       /\ ~RelativeApiPath(Val(httpReq).url)
            => "Authorization" \notin DOMAIN backendReqs[i].headers

\* What the code does: a request whose URL does not start with '/' reaches
\* the next handler unchanged; every URL that starts with '/' is resolved
\* against the base and given the configured headers.
SlashRequestsRewritten ==
  (prog = "angular" /\ Installed("client") /\ backendReqs # <<>>)
  => \A i \in DOMAIN backendReqs :
       IF StartsWith(Val(httpReq).url, <<"/">>)
       THEN /\ backendReqs[i].url = ResolveURL(Val(httpReq).url, Val(ngConfig.baseURL))
            /\ backendReqs[i].headers = ClientHeaders(ngConfig)
       ELSE backendReqs[i] = Val(httpReq)

\* ------------------------------------------------- retry middleware claims
\* The request as the retry interceptor, respectively the error interceptor,
\* receives it.
SeenBy(name) == ReqAt(chain, ngConfig, Val(httpReq), IndexOf(chain, name))

\* The URL starts with the configured base and contains the API path segment.
ApiCallOfBase(url) ==
  /\ Truthy(ngConfig.baseURL)
  /\ StartsWith(url, Val(ngConfig.baseURL))
  /\ Includes(url, ApiSegment)

\* C22 (as claimed): the retry middleware never re-issues a request that is
\* not an API call: a request whose URL does not start with the configured
\* base or does not contain the API path segment is attempted exactly once,
\* even when it fails with a retryable status.
C22_NonApiAttemptedOnce ==
  (prog = "angular" /\ Installed("retry") /\ backendReqs # <<>>
     /\ ~ApiCallOfBase(SeenBy("retry").url))
  => (Len(backendReqs) = 1 /\ timers = <<>>)

\* What the code does: a request is attempted once unless its URL starts with
\* 'http' and contains '/api/', whatever the configured base is.
NonHttpApiAttemptedOnce ==
  (prog = "angular" /\ Installed("retry") /\ backendReqs # <<>>
     /\ ~RetriesUrl(SeenBy("retry").url))
  => (Len(backendReqs) = 1 /\ timers = <<>>)

\* The backend's first answer is a failure with a retryable status.
FirstFailureRetryable ==
  /\ backendReqs # <<>>
  /\ script[1] \in retryConfig.retryableStatusCodes

\* The first failure has been dealt with: a timer was started for a retry, or
\* the caller has the error.
FirstFailureHandled == Len(backendReqs) > 1 \/ httpPc \in {"backoff", "done"}

\* C23 (as claimed): every Kubernetes API request that the client interceptor
\* rewrote from a relative path, under /api/ and under /apis/ alike, is retried
\* by the retry interceptor when it fails with a retryable status.
C23_RewrittenRequestsRetried ==
  (prog = "angular" /\ RetrySetup /\ K8sApiRequest
     /\ FirstFailureRetryable /\ FirstFailureHandled)
  => (timers # <<>> /\ timers[1] = BackoffDelay(retryConfig, 1))

\* C24 (as claimed): with the retry interceptor and the error interceptor both
\* installed after the client interceptor, a core-group request that fails
\* with a retryable status is retried per the backoff policy, whichever of
\* the two is registered first.
C24_RetriedInEitherOrder ==
  (prog = "angular" /\ Before("client", "retry") /\ Before("client", "error")
     /\ httpReq = Some([url |-> CorePath, headers |-> EmptyObj])
     /\ FirstFailureRetryable /\ FirstFailureHandled)
  => (timers # <<>> /\ timers[1] = BackoffDelay(retryConfig, 1))

\* What the code does: with the error interceptor registered before the
\* retry interceptor the request is retried; registered after it, the error
\* reaches the retry callback already translated and is never retried.
RetriedOnlyWhenErrorOutside ==
  (prog = "angular" /\ Before("client", "retry") /\ Before("client", "error")
     /\ httpReq = Some([url |-> CorePath, headers |-> EmptyObj])
     /\ FirstFailureRetryable /\ FirstFailureHandled)
  => IF Before("error", "retry")
     THEN timers # <<>> /\ timers[1] = BackoffDelay(retryConfig, 1)
     ELSE timers = <<>> /\ Len(backendReqs) = 1

\* C25 (as claimed): the retry interceptor and the error interceptor classify
\* the same requests as Kubernetes API requests: a failure of a request is
\* translated into a K8sApiError if and only if a retryable failure of that
\* request is retried.
C25_SameClassification ==
  /\ (HttpDone /\ chain = <<"client", "error">> /\ backendError # None)
       => (Val(outcome).name = "K8sApiError"
             <=> RetriesUrl(SeenBy("error").url))
  /\ (prog = "angular" /\ chain = <<"client", "retry">>
         /\ FirstFailureRetryable /\ FirstFailureHandled)
       => (timers # <<>> <=> TranslatesUrl(SeenBy("retry").url))

\* ------------------------------------------------------ retry policy claims
\* C21: the delay before the n-th retry is
\* min(initialDelay * backoffMultiplier^(n-1), maxDelay): 1000, 2000, 4000 ms
\* with the defaults; for a multiplier of at least 1 the delays of successive
\* retries never decrease and none exceeds maxDelay.
C21_BackoffDelays ==
  prog = "policy" =>
    LET rc == MergedRetryConfig(Val(retryOverride))
    IN  /\ Len(retryDelays) <= rc.maxRetries
        /\ \A n \in DOMAIN retryDelays :
              /\ retryDelays[n]
                   = Min(rc.initialDelay * Pow(rc.backoffMultiplier, n - 1), rc.maxDelay)
              /\ retryDelays[n] <= rc.maxDelay
              /\ (rc.backoffMultiplier >= 1 /\ n > 1) => retryDelays[n - 1] <= retryDelays[n]
        /\ (rc = DEFAULT_RETRY_CONFIG /\ policyPc = "exhausted")
              => retryDelays = <<1000, 2000, 4000>>

\* The cap applies to a later retry only: 2000, then 3000 twice.
C21_Witness ==
  /\ prog = "policy" /\ policyPc = "exhausted"
  /\ retryDelays = <<2000, 3000, 3000, 3000>>

C21_DefaultsWitness ==
  /\ prog = "policy" /\ policyPc = "exhausted"
  /\ MergedRetryConfig(Val(retryOverride)) = DEFAULT_RETRY_CONFIG
  /\ retryDelays = <<1000, 2000, 4000>>

\* ----------------------------------------------- repeated generation claims
\* The fetched specs of the directory, in the order they are listed.
FetchedSpecs(dir) ==
  LET fetched == Listed(DOMAIN dir \cap {GroupSpecName, OtherSpecName})
  IN  [i \in DOMAIN fetched |-> dir[fetched[i]]]

\* C30: generateClients merges only the files whose name ends in .json and
\* does not start with '_', so _merged.json is never an input of a merge:
\* every run over the same fetched specs writes the same merged document,
\* the merge of the fetched specs alone.
C30_MergedNotAnInput ==
  prog = "regenerate" =>
    /\ MergedSpecName \notin EligibleSpecs(DOMAIN regenDir)
    /\ NotesName \notin EligibleSpecs(DOMAIN regenDir)
    /\ \A i \in DOMAIN regenRuns :
         /\ regenRuns[i] = regenRuns[1]
         /\ regenRuns[i] # None
              => /\ Val(regenRuns[i]) = mergeOpenAPISpecs(FetchedSpecs(regenDir))
                 /\ MergedSpecName \in DOMAIN regenDir
                 /\ regenDir[MergedSpecName].paths = Some(Val(regenRuns[i]).paths)

\* A second run over a directory that held a _merged.json of other specs
\* before the first: both runs wrote the same document, without the stale
\* file's servers block.
C30_Witness ==
  /\ prog = "regenerate"
  /\ Len(regenRuns) = 2
  /\ DOMAIN regenDir = FileNames
  /\ regenRuns[2] # None
  /\ regenRuns[2] = regenRuns[1]
  /\ Val(regenRuns[2]).servers # Some(0)
  /\ DOMAIN Val(regenRuns[2]).paths # PathKeys

\* ============================================================ all programs
ToolsIdle == GenIdle /\ FetchIdle /\ DocIdle /\ PolicyIdle /\ RegenIdle

MergeInit == prog = "merge" /\ MergeStart /\ ReactIdle /\ HttpIdle /\ PubIdle /\ MkIdle /\ ToolsIdle

ReactInit == prog = "react" /\ ReactStart /\ MergeIdle /\ HttpIdle /\ PubIdle /\ MkIdle /\ ToolsIdle

HttpInit == prog = "angular" /\ HttpStart /\ MergeIdle /\ ReactIdle /\ PubIdle /\ MkIdle /\ ToolsIdle

PubInit == prog = "publish" /\ PubStart /\ MergeIdle /\ ReactIdle /\ HttpIdle /\ MkIdle /\ ToolsIdle

MkInit == prog = "make" /\ MkStart /\ MergeIdle /\ ReactIdle /\ HttpIdle /\ PubIdle /\ ToolsIdle

SpecMerge == MergeInit /\ [][MergeNext]_vars

SpecReact == ReactInit /\ [][ReactNext]_vars

SpecHttp == HttpInit /\ [][HttpNext]_vars

\* The transport answers every request it was given, and a timer that was
\* started fires.
SpecHttpFair ==
  /\ HttpInit /\ [][HttpNext]_vars
  /\ WF_vars(BackendSucceeds) /\ WF_vars(BackendFails) /\ WF_vars(TimerFires)

SpecPublish == PubInit /\ [][PubNext]_vars

SpecMake == MkInit /\ [][MkNext]_vars

GenInit ==
  /\ prog = "generate" /\ GenStart
  /\ MergeIdle /\ ReactIdle /\ HttpIdle /\ PubIdle /\ MkIdle /\ FetchIdle /\ DocIdle
  /\ PolicyIdle /\ RegenIdle

SpecGenerate == GenInit /\ [][GenNext]_vars

FetchInit ==
  /\ prog = "fetch" /\ FetchStart
  /\ MergeIdle /\ ReactIdle /\ HttpIdle /\ PubIdle /\ MkIdle /\ GenIdle /\ DocIdle
  /\ PolicyIdle /\ RegenIdle

SpecFetch == FetchInit /\ [][FetchNext]_vars

DocInit ==
  /\ prog = "jsdoc" /\ DocStart
  /\ MergeIdle /\ ReactIdle /\ HttpIdle /\ PubIdle /\ MkIdle /\ GenIdle /\ FetchIdle
  /\ PolicyIdle /\ RegenIdle

SpecJsdoc == DocInit /\ [][DocNext]_vars

PolicyInit ==
  /\ prog = "policy" /\ PolicyStart
  /\ MergeIdle /\ ReactIdle /\ HttpIdle /\ PubIdle /\ MkIdle /\ GenIdle /\ FetchIdle
  /\ DocIdle /\ RegenIdle

RegenInit ==
  /\ prog = "regenerate" /\ RegenStart
  /\ MergeIdle /\ ReactIdle /\ HttpIdle /\ PubIdle /\ MkIdle /\ GenIdle /\ FetchIdle
  /\ DocIdle /\ PolicyIdle

SpecRegenerate == RegenInit /\ [][RegenNext]_vars

SpecPolicy == PolicyInit /\ [][PolicyNext]_vars

\* Both client shims.
ClientsInit == ReactInit \/ HttpInit

ClientsNext == ReactNext \/ HttpNext

SpecClients == ClientsInit /\ [][ClientsNext]_vars

Init == MergeInit \/ ReactInit \/ HttpInit \/ PubInit \/ MkInit \/ GenInit \/ FetchInit \/ DocInit
          \/ PolicyInit \/ RegenInit

Next == MergeNext \/ ReactNext \/ HttpNext \/ PubNext \/ MkNext \/ GenNext \/ FetchNext \/ DocNext
          \/ PolicyNext \/ RegenNext

Spec == Init /\ [][Next]_vars
====
